---- MODULE Spec2Model ----
(***************************************************************************)
(* Verification model of the hnigel/my-asset probing scripts.              *)
(*                                                                         *)
(* The repository is a set of independent scripts, so the module holds one *)
(* group of variables and one specification per script component:          *)
(*   SpecFetch    - NasdaqLoadTester.fetch_stock_quote_sync / _async       *)
(*   SpecAsync    - NasdaqLoadTester.run_async_test (semaphore + gather)   *)
(*   SpecPool     - NasdaqLoadTester.run_concurrent_test (thread pool)     *)
(*   SpecAV       - AlphaVantageAPITester.run_comprehensive_test           *)
(*   SpecNasdaq   - nasdaq_api_test.run_comprehensive_test                 *)
(*   SpecFailover - HistoricalDataSimulator.fetch_with_failover            *)
(*   SpecFetchOnly - the same, on a simulator nothing else touches         *)
(*   SpecScenarios - its test_failover_mechanisms and test_error_handling  *)
(*   SpecCache    - its check_cache and store_in_cache                     *)
(*   SpecGenerate - its generate_historical_data, price by price           *)
(*   SpecRunner   - comprehensive_historical_data_test.main                *)
(*   SpecKeyed    - DirectAPITester.test_eodhd_api / test_finnhub_api      *)
(*   SpecYahoo    - DirectAPITester._test_yahoo_symbol                     *)
(*   SpecErrorScenarios - DirectAPITester.test_error_scenarios             *)
(*   SpecValidate - APITester.validate_api_responses                       *)
(*   SpecRapid    - validate_swift_integration rapid-request loop          *)
(*   SpecRunAll   - ios_app_simulation_test.main: run_all_tests, report    *)
(*   SpecPerformance - test_performance_concurrent on a new simulator      *)
(* A specification leaves the variables of the other groups untouched.     *)
(***************************************************************************)
EXTENDS Integers, Sequences, FiniteSets, TLC

VARIABLES
    \* ---- fetch_stock_quote_sync / fetch_stock_quote_async (one call)
    fq_symbol,      \* the symbol argument
    fq_resp,        \* what the HTTP layer answers for this call
    fq_fn,          \* "none" | "sync" | "async": which function has been called
    fq_out,         \* the outcome of the call: a returned record or a raise
    \* ---- NasdaqLoadTester.run_async_test
    a_symbols,          \* the symbols argument
    concurrent_limit,   \* the concurrent_limit argument
    sem_value,          \* asyncio.Semaphore: the counter
    sem_waiters,        \* asyncio.Semaphore: tasks blocked in acquire, oldest first
    task_pc,            \* per task: "created" | "waiting" | "fetching" | "done"
    task_out,           \* per task: what fetch_with_semaphore produced
    a_pc,               \* "gather" | "returned"
    a_summary,          \* the dict run_async_test returns
    \* ---- NasdaqLoadTester.run_concurrent_test
    p_symbols,          \* the symbols argument
    max_workers,        \* the max_workers argument
    p_pc,               \* main thread: "submit" | "collect" | "summary" | "returned" | "raised"
    work_queue,         \* executor: submitted futures no worker has taken, oldest first
    future_state,       \* per submitted future: "pending" | "running" | "finished"
    future_result,      \* per future: what fetch_stock_quote_sync produced
    yielded,            \* futures as_completed has handed to the loop
    p_results,          \* the results list, as <<future, record>> pairs
    p_summary,          \* the dict run_concurrent_test returns
    \* ---- AlphaVantageAPITester.run_comprehensive_test
    test_symbols,       \* the test_symbols argument
    request_count,      \* self.request_count
    av_pc,              \* where the method is
    av_i,               \* index of the symbol the current loop is at
    quote_tests,        \* results["quote_tests"]: symbol -> result
    dividend_tests,     \* results["dividend_tests"]: symbol -> result
    total_tests,        \* the local total_tests
    rate_limiting,      \* results["rate_limiting"], once built
    issued,             \* HTTP requests issued so far (history)
    slept,              \* a rate-limit sleep ended since the last request (history)
    req_log,            \* the requests issued, as <<endpoint, list index>> (history)
    \* ---- nasdaq_api_test.run_comprehensive_test
    nq_pc,              \* "quotes" | "dividends" | "stats" | "samples" | "report" | "returned" | "raised"
    nq_i,               \* index of the symbol the current loop is at
    n_quote_results,    \* len(quote_results)
    n_successful_quotes,      \* number of quote results with success True
    n_dividend_results, \* len(dividend_results)
    n_successful_dividends,   \* number of dividend results with success True
    dividend_sample,    \* the first five successful dividend results with a positive
                        \* yield: how many there are, and whether one of them has
                        \* annual_dividend None
    quantiles_needs_two,    \* statistics.quantiles raises on a single data point
                            \* (every Python before 3.13)
    \* ---- HistoricalDataSimulator
    providers,          \* self.providers: name -> configuration
    provider_stats,     \* self.provider_stats: name -> ProviderStats
    fo_pc,              \* fetch_with_failover: "idle" | "loop" | "returned"
    fo_symbol,          \* its symbol argument
    fo_idx,             \* position of its loop in sorted_providers
    fo_result,          \* what it returned: outcome, data, provider name
    fo_calls,           \* the simulate_api_call calls of this fetch, in order (history)
    n_fetches,          \* fetch_with_failover calls started so far (history)
    n_unlucky,          \* draws of main's run on which some provider would fail (history)
    \* ---- HistoricalDataSimulator.test_failover_mechanisms / test_error_handling
    tf_pc,              \* test_failover_mechanisms: "idle" | "s1" | "s2" | "s3" | "returned"
    tf_scenarios,       \* its results["scenarios"]
    original_success_rate,  \* its local original_success_rate
    tf_before,          \* self.providers when it was called (history)
    te_pc,              \* test_error_handling: "idle" | "rate_limit" | "timeout" |
                        \* "timeout_loop" | "restore" | "returned"
    te_scenarios,       \* its results["scenarios"]
    timeout_tests,      \* its local timeout_tests
    original_rate,      \* its local original_rate
    te_before,          \* self.providers when it was called (history)
    n_runs,             \* test methods called so far (history)
    \* ---- HistoricalDataSimulator.check_cache / store_in_cache
    memory_cache,       \* self.memory_cache: symbol -> CacheEntry
    disk_cache,         \* self.disk_cache: symbol -> CacheEntry
    now,                \* datetime.now(), in minutes
    cc_last,            \* the last check_cache / store_in_cache call: its arguments,
                        \* what it returned, whether it took the expired branch
    n_cache_ops,        \* check_cache and store_in_cache calls so far (history)
    n_elapses,           \* times the clock was advanced between calls (history)
    \* ---- HistoricalDataSimulator.generate_historical_data (one call)
    g_pc,               \* "loop" | "returned"
    g_days,             \* the days argument
    base_price,         \* the local base_price, in 1/1000 of a dollar
    g_len,              \* len(data)
    g_price,             \* the HistoricalPrice appended last, prices in cents
    \* ---- comprehensive_historical_data_test: main and run_all_tests
    r_pc,               \* "suites" | "report" | "exited"
    n_test_symbols,     \* len(self.test_symbols)
    r_i,                \* index in suite_configs of the suite the loop is at
    test_suites,        \* the test_suites dict, as the list of its values in
                        \* insertion order (the keys are the suites' names)
    r_outcomes,         \* what each test_func() call did (history)
    exit_code,          \* what main returned; -1 before it returns
    r_raised,            \* main's except clause ran
    \* ---- DirectAPITester.test_eodhd_api / test_finnhub_api (one call)
    da_fn,              \* "none" | "eodhd" | "finnhub": which method was called
    da_api_key,         \* its api_key argument
    da_symbols,         \* self.test_symbols
    da_pc,              \* "idle" | "loop" | "returned"
    da_i,               \* index of the symbol the loop is at
    da_tests,           \* results["tests"]
    da_requests,         \* the symbols an HTTP request was issued for (history)
    \* ---- DirectAPITester._test_yahoo_symbol (one call)
    y_pc,               \* "idle" | "requested" | "returned"
    y_symbol,           \* the symbol argument
    y_resp,             \* what session.get answered for this call
    y_out,               \* what the call did: it returned a record or it raised
    \* ---- DirectAPITester.test_error_scenarios
    es_pc,                  \* "idle" | "gather" | "returned"
    es_tests,               \* results["tests"]
    rate_limit_responses,    \* what the gathered tasks gave, in task order
    \* ---- APITester.validate_api_responses (one call)
    v_pc,               \* "idle" | "returned"
    all_results,        \* the all_results argument
    validation_report,   \* the report the call returned
    \* ---- validate_swift_integration.test_swift_nasdaq_integration, the
    \* ---- rapid-request loop
    rl_pc,              \* "loop" | "after" | "done"
    rl_i,               \* the loop variable i of range(10)
    rapid_requests,     \* the responses received
    failed_requests,    \* non-200, non-429 responses and exceptions
    rl_rate_limited,    \* responses with status 429 (history)
    rl_printed,          \* the messages printed by the loop and after it
    \* ---- ios_app_simulation_test.main: run_all_tests, test by test, and
    \* ---- generate_comprehensive_report
    ra_caller,          \* "main" | "report_only": who calls the report
    ra_pc,              \* the test run_all_tests is at, then "returned",
                        \* "reported" or "raised"
    test_results,       \* all_results: per test its key and its flags
    basic_tests,        \* test_basic_functionality: the success flags so far
    caching_tests,      \* results["tests"] of test_caching_mechanisms
    core_data_records,  \* self.core_data_records
    concurrent_results, \* test_performance_concurrent: the success flags
    lt_i,               \* the load test: iterations done
    lt_symbol,          \* its symbol of the current iteration
    load_results,       \* its counters
    lt_stored,          \* symbols an iteration stored (history)
    lt_succeeded,       \* symbols a fetch of an iteration succeeded for (history)
    load_test,          \* results["load_test"]
    report              \* the figures of the report

fetchVars == <<fq_symbol, fq_resp, fq_fn, fq_out>>

asyncVars == <<a_symbols, concurrent_limit, sem_value, sem_waiters, task_pc, task_out,
               a_pc, a_summary>>

poolVars == <<p_symbols, max_workers, p_pc, work_queue, future_state, future_result,
              yielded, p_results, p_summary>>

avVars == <<test_symbols, request_count, av_pc, av_i, quote_tests, dividend_tests,
            total_tests, rate_limiting, issued, slept, req_log>>

nqVars == <<nq_pc, nq_i, n_quote_results, n_successful_quotes, n_dividend_results,
            n_successful_dividends, dividend_sample, quantiles_needs_two>>

simVars == <<providers, provider_stats, fo_pc, fo_symbol, fo_idx, fo_result, fo_calls,
             n_fetches, n_unlucky>>

scnVars == <<tf_pc, tf_scenarios, original_success_rate, tf_before, te_pc, te_scenarios,
             timeout_tests, original_rate, te_before, n_runs>>

cacheVars == <<memory_cache, disk_cache, now, cc_last, n_cache_ops, n_elapses>>

genVars == <<g_pc, g_days, base_price, g_len, g_price>>

runVars == <<r_pc, n_test_symbols, r_i, test_suites, r_outcomes, exit_code, r_raised>>

daVars == <<da_fn, da_api_key, da_symbols, da_pc, da_i, da_tests, da_requests>>

yahooVars == <<y_pc, y_symbol, y_resp, y_out>>

esVars == <<es_pc, es_tests, rate_limit_responses>>

valVars == <<v_pc, all_results, validation_report>>

rapidVars == <<rl_pc, rl_i, rapid_requests, failed_requests, rl_rate_limited, rl_printed>>

raVars == <<ra_caller, ra_pc, test_results, basic_tests, caching_tests, core_data_records,
            concurrent_results, lt_i, lt_symbol, load_results, lt_stored, lt_succeeded,
            load_test, report>>

vars == <<fetchVars, asyncVars, poolVars, avVars, nqVars, simVars, scnVars, cacheVars, genVars, runVars, daVars, yahooVars, esVars, valVars, rapidVars, raVars>>

notFetch == <<asyncVars, poolVars, avVars, nqVars, simVars, scnVars, cacheVars, genVars, runVars, daVars, yahooVars, esVars, valVars, rapidVars, raVars>>

notAsync == <<fetchVars, poolVars, avVars, nqVars, simVars, scnVars, cacheVars, genVars, runVars, daVars, yahooVars, esVars, valVars, rapidVars, raVars>>

notPool == <<fetchVars, asyncVars, avVars, nqVars, simVars, scnVars, cacheVars, genVars, runVars, daVars, yahooVars, esVars, valVars, rapidVars, raVars>>

notAV == <<fetchVars, asyncVars, poolVars, nqVars, simVars, scnVars, cacheVars, genVars, runVars, daVars, yahooVars, esVars, valVars, rapidVars, raVars>>

notNasdaq == <<fetchVars, asyncVars, poolVars, avVars, simVars, scnVars, cacheVars, genVars, runVars, daVars, yahooVars, esVars, valVars, rapidVars, raVars>>

notSim == <<fetchVars, asyncVars, poolVars, avVars, nqVars, scnVars, cacheVars, genVars, runVars, daVars, yahooVars, esVars, valVars, rapidVars, raVars>>

notScn == <<fetchVars, asyncVars, poolVars, avVars, nqVars, cacheVars, genVars, runVars, daVars, yahooVars, esVars, valVars, rapidVars, raVars>>

notCache == <<fetchVars, asyncVars, poolVars, avVars, nqVars, simVars, scnVars, genVars, runVars, daVars, yahooVars, esVars, valVars, rapidVars, raVars>>

notGen == <<fetchVars, asyncVars, poolVars, avVars, nqVars, simVars, scnVars, cacheVars, runVars, daVars, yahooVars, esVars, valVars, rapidVars, raVars>>

notRun == <<fetchVars, asyncVars, poolVars, avVars, nqVars, simVars, scnVars, cacheVars, genVars, daVars, yahooVars, esVars, valVars, rapidVars, raVars>>

notDirect == <<fetchVars, asyncVars, poolVars, avVars, nqVars, simVars, scnVars, cacheVars, genVars, runVars, yahooVars, esVars, valVars, rapidVars, raVars>>

notYahoo == <<fetchVars, asyncVars, poolVars, avVars, nqVars, simVars, scnVars, cacheVars, genVars, runVars, daVars, esVars, valVars, rapidVars, raVars>>

notErr == <<fetchVars, asyncVars, poolVars, avVars, nqVars, simVars, scnVars, cacheVars, genVars, runVars, daVars, yahooVars, valVars, rapidVars, raVars>>

notVal == <<fetchVars, asyncVars, poolVars, avVars, nqVars, simVars, scnVars, cacheVars, genVars, runVars, daVars, yahooVars, esVars, rapidVars, raVars>>

notRapid == <<fetchVars, asyncVars, poolVars, avVars, nqVars, simVars, scnVars, cacheVars, genVars, runVars, daVars, yahooVars, esVars, valVars, raVars>>

notRunAll == <<fetchVars, asyncVars, poolVars, avVars, nqVars, genVars, runVars, daVars, yahooVars, esVars, valVars, rapidVars>>

(***************************************************************************)
(* Text helpers: strings are sequences of one-character strings.           *)
(***************************************************************************)
MaxPriceLen == 3

PriceChars == {"$", ",", "0", "1", ".", "N"}

Digits == {"0", "1"}

RECURSIVE StringsUpTo(_)
StringsUpTo(n) ==
    IF n = 0 THEN {<<>>}
    ELSE LET shorter == StringsUpTo(n - 1)
         IN  shorter \cup {Append(s, c) : s \in {t \in shorter : Len(t) = n - 1}, c \in PriceChars}

\* str.replace(ch, ""): every occurrence of ch removed
RECURSIVE Replace(_, _)
Replace(s, ch) ==
    IF s = <<>> THEN <<>>
    ELSE IF Head(s) = ch THEN Replace(Tail(s), ch)
         ELSE <<Head(s)>> \o Replace(Tail(s), ch)

RECURSIVE CountChar(_, _)
CountChar(s, ch) ==
    IF s = <<>> THEN 0
    ELSE (IF Head(s) = ch THEN 1 ELSE 0) + CountChar(Tail(s), ch)

\* float(s) succeeds on digits with at most one decimal point and at least
\* one digit; it raises ValueError on "", ".", and on any other character.
FloatParses(s) ==
    /\ \A i \in 1..Len(s) : s[i] \in Digits \cup {"."}
    /\ CountChar(s, ".") <= 1
    /\ \E i \in 1..Len(s) : s[i] \in Digits

IndexOfDot(s) ==
    IF CountChar(s, ".") = 0 THEN Len(s) + 1
    ELSE CHOOSE i \in 1..Len(s) : s[i] = "."

RECURSIVE DigitsValue(_)
DigitsValue(s) ==
    IF s = <<>> THEN 0
    ELSE 10 * DigitsValue(SubSeq(s, 1, Len(s) - 1)) + (IF s[Len(s)] = "1" THEN 1 ELSE 0)

RECURSIVE Pow10(_)
Pow10(n) == IF n = 0 THEN 1 ELSE 10 * Pow10(n - 1)

\* The value of float(s), in units of 10^-MaxPriceLen, for a string that parses.
FloatValue(s) ==
    LET d    == IndexOfDot(s)
        int  == SubSeq(s, 1, d - 1)
        frac == SubSeq(s, d + 1, Len(s))
    IN  DigitsValue(int) * Pow10(MaxPriceLen)
          + DigitsValue(frac) * Pow10(MaxPriceLen - Len(frac))

(***************************************************************************)
(* HTTP answers of the Nasdaq quote endpoint, as the two fetch functions   *)
(* read them.                                                              *)
(***************************************************************************)
NoBody == [json |-> "none", statusField |-> "missing", rCode |-> 0,
           price |-> [kind |-> "missing", s |-> <<>>]]

PriceFields ==
    {[kind |-> "missing", s |-> <<>>], [kind |-> "null", s |-> <<>>]}
      \cup {[kind |-> "str", s |-> s] : s \in StringsUpTo(MaxPriceLen)}

DictBodies ==
    [json : {"dict"}, statusField : {"missing", "null", "dict"},
     rCode : {200, 400}, price : PriceFields]

Bodies ==
    DictBodies \cup {[NoBody EXCEPT !.json = "invalid"], [NoBody EXCEPT !.json = "nondict"]}

Responses ==
    {[net |-> n, status |-> 0, body |-> NoBody] : n \in {"timeout", "connerr"}}
      \cup {[net |-> "ok", status |-> st, body |-> NoBody] : st \in {404, 429, 500}}
      \cup {[net |-> "ok", status |-> 200, body |-> b] : b \in Bodies}

LoadSymbols == {"AAPL", "MSFT"}

\* The "error" entry of a result record: absent, f"HTTP {status}" or str(e).
NoError == [tag |-> "absent", status |-> 0, exc |-> "none"]

HttpError(status) == [tag |-> "HTTP", status |-> status, exc |-> "none"]

ExcError(e) == [tag |-> "str(e)", status |-> 0, exc |-> e]

\* Outcomes of a Python block: it returns a value or it raises.
Returned(v) == [kind |-> "return", value |-> v, exc |-> "none"]
Raised(e)   == [kind |-> "raise",
                value |-> [symbol |-> "", success |-> FALSE, price |-> -1, error |-> NoError],
                exc |-> e]

SuccessRecord(symbol, price) ==
    [symbol |-> symbol, success |-> TRUE, price |-> price, error |-> NoError]

FailureRecord(symbol, error) ==
    [symbol |-> symbol, success |-> FALSE, price |-> -1, error |-> error]

\* price_str = data.get("data", {}).get("primaryData", {}).get("lastSalePrice", "$0")
\* price = float(price_str.replace("$", "").replace(",", ""))
ParsePrice(price) ==
    IF price.kind = "null" THEN Raised("AttributeError")
    ELSE LET price_str == IF price.kind = "missing" THEN <<"$", "0">> ELSE price.s
             cleaned   == Replace(Replace(price_str, "$"), ",")
         IN  IF FloatParses(cleaned) THEN Returned(FloatValue(cleaned))
             ELSE Raised("ValueError")

\* The body of the try block, shared by the two functions up to the name of
\* the status attribute.
TryFetch(symbol, resp) ==
    IF resp.net = "timeout" THEN Raised("Timeout")
    ELSE IF resp.net = "connerr" THEN Raised("ConnectionError")
    ELSE IF resp.status = 200
         THEN IF resp.body.json = "invalid" THEN Raised("JSONDecodeError")
              ELSE IF resp.body.json = "nondict" THEN Raised("AttributeError")
              ELSE IF resp.body.statusField = "null" THEN Raised("AttributeError")
              ELSE IF resp.body.statusField = "dict" /\ resp.body.rCode = 200
                   THEN LET p == ParsePrice(resp.body.price)
                        IN  IF p.kind = "raise" THEN p
                            ELSE Returned(SuccessRecord(symbol, p.value))
                   ELSE Returned(FailureRecord(symbol, HttpError(resp.status)))
         ELSE Returned(FailureRecord(symbol, HttpError(resp.status)))

\* except Exception as e: return {..., "success": False, "error": str(e)}
CatchRequestErrorsOnly(symbol, body) ==
    IF body.kind = "raise" /\ body.exc \in {"Timeout", "ConnectionError"}
    THEN Returned(FailureRecord(symbol, ExcError(body.exc)))
    ELSE body

ExceptException(symbol, body) ==
    IF body.kind = "raise"
    THEN Returned(FailureRecord(symbol, ExcError(body.exc)))
    ELSE body

fetch_stock_quote_sync(symbol, resp) == ExceptException(symbol, TryFetch(symbol, resp))

fetch_stock_quote_async(symbol, resp) == ExceptException(symbol, TryFetch(symbol, resp))

FetchInit ==
    /\ fq_symbol \in LoadSymbols
    /\ fq_resp \in Responses
    /\ fq_fn = "none"
    /\ fq_out = Raised("none")

FetchIdle ==
    /\ fq_symbol = "AAPL"
    /\ fq_resp = [net |-> "timeout", status |-> 0, body |-> NoBody]
    /\ fq_fn = "none"
    /\ fq_out = Raised("none")

CallSync ==
    /\ fq_fn = "none"
    /\ fq_fn' = "sync"
    /\ fq_out' = fetch_stock_quote_sync(fq_symbol, fq_resp)
    /\ UNCHANGED <<fq_symbol, fq_resp>>
    /\ UNCHANGED notFetch

CallAsync ==
    /\ fq_fn = "none"
    /\ fq_fn' = "async"
    /\ fq_out' = fetch_stock_quote_async(fq_symbol, fq_resp)
    /\ UNCHANGED <<fq_symbol, fq_resp>>
    /\ UNCHANGED notFetch

(***************************************************************************)
(* NasdaqLoadTester.run_async_test: one task per symbol, each wrapped in   *)
(* "async with semaphore", gathered with return_exceptions=True.           *)
(***************************************************************************)
MaxSymbols == 3

MaxLimit == 2

\* What the endpoint answers during a load test.
LoadResponses ==
    { [net |-> "ok", status |-> 200,
       body |-> [json |-> "dict", statusField |-> "dict", rCode |-> 200,
                 price |-> [kind |-> "str", s |-> <<"$", "1">>]]],
      [net |-> "ok", status |-> 429, body |-> NoBody],
      [net |-> "timeout", status |-> 0, body |-> NoBody] }

SymbolNames == <<"AAPL", "MSFT">>

\* Symbol lists of a given length (run_load_tests passes a list with repeats).
SymbolList(n) == [i \in 1..n |-> SymbolNames[((i - 1) % Len(SymbolNames)) + 1]]

NotStarted == Raised("none")

\* asyncio.Semaphore.acquire returns at once only when the counter is
\* positive and nobody is queued ahead.
AcquireWithoutLimit(value, waiters) == TRUE

SemCanAcquire(value, waiters) == value > 0 /\ waiters = <<>>

\* "async with semaphore" releases on exit, whatever the body produced.
ReleaseOnSuccessOnly(value, out) ==
    IF out.kind = "return" /\ out.value.success THEN value + 1 ELSE value

SemRelease(value, out) == value + 1

IsDict(o) == o.kind = "return"

IsSuccess(r) == r.success

IsFailure(r) == ~r.success

\* The summary both run_* methods return (timing entries left out).
Summary(valid_results) ==
    [returned            |-> TRUE,
     total_requests      |-> Len(valid_results),
     successful_requests |-> Len(SelectSeq(valid_results, IsSuccess)),
     failed_requests     |-> Len(SelectSeq(valid_results, IsFailure)),
     results             |-> valid_results]

NoSummary ==
    [returned |-> FALSE, total_requests |-> 0, successful_requests |-> 0,
     failed_requests |-> 0, results |-> <<>>]

AsyncInit ==
    /\ \E n \in 0..MaxSymbols : a_symbols = SymbolList(n)
    /\ concurrent_limit \in 1..MaxLimit
    /\ sem_value = concurrent_limit
    /\ sem_waiters = <<>>
    /\ task_pc = [i \in DOMAIN a_symbols |-> "created"]
    /\ task_out = [i \in DOMAIN a_symbols |-> NotStarted]
    /\ a_pc = "gather"
    /\ a_summary = NoSummary

AsyncIdle ==
    /\ a_symbols = <<>>
    /\ concurrent_limit = 1
    /\ sem_value = 1
    /\ sem_waiters = <<>>
    /\ task_pc = <<>>
    /\ task_out = <<>>
    /\ a_pc = "off"
    /\ a_summary = NoSummary

\* A task starts: it enters "async with semaphore" and either goes on into
\* fetch_stock_quote_async or blocks.
TaskAcquire(i) ==
    /\ a_pc = "gather"
    /\ task_pc[i] = "created"
    /\ IF SemCanAcquire(sem_value, sem_waiters)
       THEN /\ sem_value' = sem_value - 1
            /\ task_pc' = [task_pc EXCEPT ![i] = "fetching"]
            /\ UNCHANGED sem_waiters
       ELSE /\ sem_waiters' = Append(sem_waiters, i)
            /\ task_pc' = [task_pc EXCEPT ![i] = "waiting"]
            /\ UNCHANGED sem_value
    /\ UNCHANGED <<a_symbols, concurrent_limit, task_out, a_pc, a_summary>>
    /\ UNCHANGED notAsync

\* The oldest blocked task is woken once the counter is positive.
TaskWake(i) ==
    /\ a_pc = "gather"
    /\ task_pc[i] = "waiting"
    /\ sem_waiters # <<>> /\ Head(sem_waiters) = i
    /\ sem_value > 0
    /\ sem_value' = sem_value - 1
    /\ sem_waiters' = Tail(sem_waiters)
    /\ task_pc' = [task_pc EXCEPT ![i] = "fetching"]
    /\ UNCHANGED <<a_symbols, concurrent_limit, task_out, a_pc, a_summary>>
    /\ UNCHANGED notAsync

\* The request of task i ends (answer, failed answer or timeout):
\* fetch_stock_quote_async produces its outcome and the semaphore is left.
TaskComplete(i) ==
    /\ a_pc = "gather"
    /\ task_pc[i] = "fetching"
    /\ \E resp \in LoadResponses :
         LET out == fetch_stock_quote_async(a_symbols[i], resp)
         IN  /\ task_out' = [task_out EXCEPT ![i] = out]
             /\ sem_value' = SemRelease(sem_value, out)
    /\ task_pc' = [task_pc EXCEPT ![i] = "done"]
    /\ UNCHANGED <<a_symbols, concurrent_limit, sem_waiters, a_pc, a_summary>>
    /\ UNCHANGED notAsync

\* asyncio.gather returns when every task is done, results in input order;
\* exceptions are filtered out and the summary is built.
GatherReturn ==
    /\ a_pc = "gather"
    /\ \A i \in DOMAIN a_symbols : task_pc[i] = "done"
    /\ LET results       == task_out
           dicts         == SelectSeq(results, IsDict)
           valid_results == [k \in 1..Len(dicts) |-> dicts[k].value]
       IN  a_summary' = Summary(valid_results)
    /\ a_pc' = "returned"
    /\ UNCHANGED <<a_symbols, concurrent_limit, sem_value, sem_waiters, task_pc, task_out>>
    /\ UNCHANGED notAsync

InFlight == {i \in DOMAIN a_symbols : task_pc[i] = "fetching"}

(***************************************************************************)
(* NasdaqLoadTester.run_concurrent_test: every symbol is submitted to a    *)
(* ThreadPoolExecutor, as_completed hands the futures back as they finish. *)
(***************************************************************************)
MaxWorkers == 2

PoolInit ==
    /\ \E n \in 0..MaxSymbols : p_symbols = SymbolList(n)
    /\ max_workers \in 1..MaxWorkers
    /\ p_pc = "submit"
    /\ work_queue = <<>>
    /\ future_state = <<>>
    /\ future_result = <<>>
    /\ yielded = {}
    /\ p_results = <<>>
    /\ p_summary = NoSummary

PoolIdle ==
    /\ p_symbols = <<>>
    /\ max_workers = 1
    /\ p_pc = "off"
    /\ work_queue = <<>>
    /\ future_state = <<>>
    /\ future_result = <<>>
    /\ yielded = {}
    /\ p_results = <<>>
    /\ p_summary = NoSummary

Running == {i \in DOMAIN future_state : future_state[i] = "running"}

\* executor.submit(self.fetch_stock_quote_sync, symbol), in list order; the
\* comprehension ends once every symbol is submitted.
Submit ==
    /\ p_pc = "submit"
    /\ IF Len(future_state) < Len(p_symbols)
       THEN /\ future_state' = Append(future_state, "pending")
            /\ future_result' = Append(future_result, NotStarted)
            /\ work_queue' = Append(work_queue, Len(future_state) + 1)
            /\ UNCHANGED p_pc
       ELSE /\ p_pc' = "collect"
            /\ UNCHANGED <<future_state, future_result, work_queue>>
    /\ UNCHANGED <<p_symbols, max_workers, yielded, p_results, p_summary>>
    /\ UNCHANGED notPool

\* A free worker thread takes the oldest queued future.
WorkerTake ==
    /\ p_pc \in {"submit", "collect"}
    /\ work_queue # <<>>
    /\ Cardinality(Running) < max_workers
    /\ future_state' = [future_state EXCEPT ![Head(work_queue)] = "running"]
    /\ work_queue' = Tail(work_queue)
    /\ UNCHANGED <<p_symbols, max_workers, p_pc, future_result, yielded, p_results, p_summary>>
    /\ UNCHANGED notPool

\* The worker's call of fetch_stock_quote_sync ends and sets the future.
WorkerFinish(i) ==
    /\ p_pc \in {"submit", "collect"}
    /\ future_state[i] = "running"
    /\ \E resp \in LoadResponses :
         future_result' = [future_result EXCEPT ![i] = fetch_stock_quote_sync(p_symbols[i], resp)]
    /\ future_state' = [future_state EXCEPT ![i] = "finished"]
    /\ UNCHANGED <<p_symbols, max_workers, p_pc, work_queue, yielded, p_results, p_summary>>
    /\ UNCHANGED notPool

\* as_completed ends when it has handed out every future it was given.
StopsOneEarly(done, futures) ==
    Cardinality(done) >= Cardinality(futures) - 1

AllYielded(done, futures) == done = futures

\* for future in as_completed(...): results.append(future.result())
Collect(i) ==
    /\ p_pc = "collect"
    /\ ~AllYielded(yielded, DOMAIN future_state)
    /\ future_state[i] = "finished"
    /\ i \notin yielded
    /\ yielded' = yielded \cup {i}
    /\ IF future_result[i].kind = "return"
       THEN /\ p_results' = Append(p_results, <<i, future_result[i].value>>)
            /\ UNCHANGED p_pc
       ELSE /\ p_pc' = "raised"
            /\ UNCHANGED p_results
    /\ UNCHANGED <<p_symbols, max_workers, work_queue, future_state, future_result, p_summary>>
    /\ UNCHANGED notPool

\* The loop is over; leaving the with block waits for the workers.
CollectDone ==
    /\ p_pc = "collect"
    /\ AllYielded(yielded, DOMAIN future_state)
    /\ Running = {}
    /\ p_pc' = "summary"
    /\ UNCHANGED <<p_symbols, max_workers, work_queue, future_state, future_result,
                   yielded, p_results, p_summary>>
    /\ UNCHANGED notPool

\* The summary dict; "success_rate" divides by len(results).
BuildSummary ==
    /\ p_pc = "summary"
    /\ LET results == [k \in 1..Len(p_results) |-> p_results[k][2]]
       IN  IF Len(results) = 0
           THEN /\ p_pc' = "raised"
                /\ UNCHANGED p_summary
           ELSE /\ p_pc' = "returned"
                /\ p_summary' = Summary(results)
    /\ UNCHANGED <<p_symbols, max_workers, work_queue, future_state, future_result,
                   yielded, p_results>>
    /\ UNCHANGED notPool

(***************************************************************************)
(* AlphaVantageAPITester: test_global_quote, test_dividends and            *)
(* run_comprehensive_test.                                                 *)
(***************************************************************************)
max_requests == 25

MaxTestSymbols == 27

AVNames == <<"AAPL", "INVALID">>

AVSymbolList(n) == [i \in 1..n |-> AVNames[((i - 1) % Len(AVNames)) + 1]]

\* Answers of the GLOBAL_QUOTE endpoint: "quote" is the "Global Quote" entry
\* of the body, "price" its "05. price" entry.
NoQuote == [quote |-> "missing", price |-> [kind |-> "missing", s |-> <<>>]]

QuoteResponses ==
    {[net |-> n, status |-> 0, body |-> NoQuote] : n \in {"timeout", "connerr"}}
      \cup {[net |-> "ok", status |-> 503, body |-> NoQuote]}
      \cup {[net |-> "ok", status |-> 200, body |-> [NoQuote EXCEPT !.quote = q]] :
              q \in {"missing", "empty"}}
      \cup {[net |-> "ok", status |-> 200, body |-> [quote |-> "dict", price |-> pf]] :
              pf \in {[kind |-> "missing", s |-> <<>>], [kind |-> "str", s |-> <<>>],
                      [kind |-> "str", s |-> <<"1", ".", "1">>],
                      [kind |-> "str", s |-> <<"N">>]}}

\* A result dict of test_global_quote / test_dividends, as the caller reads
\* it: "price" is None when has_price is FALSE.
AVSuccess(symbol, has_price) ==
    [symbol |-> symbol, success |-> TRUE, has_price |-> has_price, error |-> "none"]

AVFailure(symbol, error) ==
    [symbol |-> symbol, success |-> FALSE, has_price |-> FALSE, error |-> error]

\* "price": float(price) if price else None
test_global_quote(symbol, resp) ==
    IF resp.net = "timeout" THEN AVFailure(symbol, "Request timeout (30s)")
    ELSE IF resp.net = "connerr" THEN AVFailure(symbol, "Exception")
    ELSE IF resp.status # 200 THEN AVFailure(symbol, "HTTP")
    ELSE IF resp.body.quote # "dict"
         THEN AVFailure(symbol, "Empty or invalid Global Quote response")
    ELSE IF resp.body.price.kind = "missing" \/ resp.body.price.s = <<>>
         THEN AVSuccess(symbol, FALSE)
    ELSE IF FloatParses(resp.body.price.s) THEN AVSuccess(symbol, TRUE)
    ELSE AVFailure(symbol, "Exception")

\* Answers of the DIVIDENDS endpoint: "data" is the "data" entry of the body.
DividendResponses ==
    {[net |-> n, status |-> 0, data |-> "missing"] : n \in {"timeout", "connerr"}}
      \cup {[net |-> "ok", status |-> 503, data |-> "missing"]}
      \cup {[net |-> "ok", status |-> 200, data |-> d] :
              d \in {"missing", "notlist", "emptylist", "list", "badamount"}}

test_dividends(symbol, resp) ==
    IF resp.net = "timeout" THEN AVFailure(symbol, "Request timeout (30s)")
    ELSE IF resp.net = "connerr" THEN AVFailure(symbol, "Exception")
    ELSE IF resp.status # 200 THEN AVFailure(symbol, "HTTP")
    ELSE IF resp.data \in {"missing", "notlist"}
         THEN AVFailure(symbol, "Invalid dividends response structure")
    ELSE IF resp.data = "badamount" THEN AVFailure(symbol, "Exception")
    ELSE AVSuccess(symbol, FALSE)

\* What the two endpoints answer during a run: one answer per kind of result.
RunQuoteResponses ==
    {r \in QuoteResponses :
        \/ r.net = "timeout"
        \/ r.status = 200 /\ r.body.quote = "dict"
             /\ r.body.price \in {[kind |-> "missing", s |-> <<>>],
                                  [kind |-> "str", s |-> <<"1", ".", "1">>]}}

RunDividendResponses ==
    {r \in DividendResponses : r.status = 503 \/ r.data = "list"}

NoRateLimiting == [built |-> FALSE, requests_used |-> 0, remaining |-> 0,
                   rate_limit_hit |-> FALSE]

AVInit ==
    /\ \E n \in 0..MaxTestSymbols : test_symbols = AVSymbolList(n)
    /\ request_count = 0
    /\ av_pc = "quote_loop"
    /\ av_i = 1
    /\ quote_tests = <<>>
    /\ dividend_tests = <<>>
    /\ total_tests = 0
    /\ rate_limiting = NoRateLimiting
    /\ issued = 0
    /\ slept = FALSE
    /\ req_log = <<>>

AVIdle ==
    /\ test_symbols = <<>>
    /\ request_count = 0
    /\ av_pc = "off"
    /\ av_i = 1
    /\ quote_tests = <<>>
    /\ dividend_tests = <<>>
    /\ total_tests = 0
    /\ rate_limiting = NoRateLimiting
    /\ issued = 0
    /\ slept = FALSE
    /\ req_log = <<>>

\* if self.request_count > 0: await asyncio.sleep(self.rate_limit_delay)
SleepsFromThirdRequest(count) == count > 1

QuoteNeedsSleep(count) == count > 0

\* Top of a quote-loop iteration: the rate-limit sleep, when one is due.
QuoteSleep ==
    /\ av_pc = "quote_loop"
    /\ av_i <= Len(test_symbols)
    /\ slept' = (slept \/ QuoteNeedsSleep(request_count))
    /\ av_pc' = "quote_request"
    /\ UNCHANGED <<test_symbols, request_count, av_i, quote_tests, dividend_tests,
                   total_tests, rate_limiting, issued, req_log>>
    /\ UNCHANGED notAV

\* The rest of the iteration: the request, the result stored under the
\* symbol, the printed line (which formats result['price'] with :.2f), the
\* counters and the rate-limit break.
QuoteRequest ==
    /\ av_pc = "quote_request"
    /\ \E resp \in RunQuoteResponses :
         LET symbol == test_symbols[av_i]
             result == test_global_quote(symbol, resp)
         IN  /\ quote_tests' = (symbol :> result) @@ quote_tests
             /\ issued' = issued + 1
             /\ slept' = FALSE
             /\ req_log' = Append(req_log, <<"quote", av_i>>)
             /\ IF result.success /\ ~result.has_price
                THEN /\ av_pc' = "raised"
                     /\ UNCHANGED <<request_count, total_tests, av_i>>
                ELSE /\ total_tests' = total_tests + 1
                     /\ request_count' = request_count + 1
                     /\ IF request_count' >= max_requests
                        THEN av_pc' = "dividend_check" /\ UNCHANGED av_i
                        ELSE av_pc' = "quote_loop" /\ av_i' = av_i + 1
    /\ UNCHANGED <<test_symbols, dividend_tests, rate_limiting>>
    /\ UNCHANGED notAV

QuoteLoopEnd ==
    /\ av_pc = "quote_loop"
    /\ av_i > Len(test_symbols)
    /\ av_pc' = "dividend_check"
    /\ UNCHANGED <<test_symbols, request_count, av_i, quote_tests, dividend_tests,
                   total_tests, rate_limiting, issued, slept, req_log>>
    /\ UNCHANGED notAV

\* if self.request_count < self.max_requests: ... test_symbols[:3]
DividendCheck ==
    /\ av_pc = "dividend_check"
    /\ IF request_count < max_requests
       THEN av_pc' = "dividend_loop" /\ av_i' = 1
       ELSE av_pc' = "metrics" /\ UNCHANGED av_i
    /\ UNCHANGED <<test_symbols, request_count, quote_tests, dividend_tests,
                   total_tests, rate_limiting, issued, slept, req_log>>
    /\ UNCHANGED notAV

DividendSymbols == IF Len(test_symbols) < 3 THEN Len(test_symbols) ELSE 3

\* Top of a dividend-loop iteration: the rate-limit break, else the sleep.
DividendSleep ==
    /\ av_pc = "dividend_loop"
    /\ av_i <= DividendSymbols
    /\ IF request_count >= max_requests
       THEN av_pc' = "metrics" /\ UNCHANGED slept
       ELSE av_pc' = "dividend_request" /\ slept' = TRUE
    /\ UNCHANGED <<test_symbols, request_count, av_i, quote_tests, dividend_tests,
                   total_tests, rate_limiting, issued, req_log>>
    /\ UNCHANGED notAV

DividendRequest ==
    /\ av_pc = "dividend_request"
    /\ \E resp \in RunDividendResponses :
         LET symbol == test_symbols[av_i]
             result == test_dividends(symbol, resp)
         IN  dividend_tests' = (symbol :> result) @@ dividend_tests
    /\ issued' = issued + 1
    /\ slept' = FALSE
    /\ req_log' = Append(req_log, <<"dividend", av_i>>)
    /\ total_tests' = total_tests + 1
    /\ request_count' = request_count + 1
    /\ av_i' = av_i + 1
    /\ av_pc' = "dividend_loop"
    /\ UNCHANGED <<test_symbols, quote_tests, rate_limiting>>
    /\ UNCHANGED notAV

DividendLoopEnd ==
    /\ av_pc = "dividend_loop"
    /\ av_i > DividendSymbols
    /\ av_pc' = "metrics"
    /\ UNCHANGED <<test_symbols, request_count, av_i, quote_tests, dividend_tests,
                   total_tests, rate_limiting, issued, slept, req_log>>
    /\ UNCHANGED notAV

\* results["rate_limiting"] = {...}; return results
AVReturn ==
    /\ av_pc = "metrics"
    /\ rate_limiting' = [built |-> TRUE, requests_used |-> request_count,
                         remaining |-> max_requests - request_count,
                         rate_limit_hit |-> (request_count >= max_requests)]
    /\ av_pc' = "returned"
    /\ UNCHANGED <<test_symbols, request_count, av_i, quote_tests, dividend_tests,
                   total_tests, issued, slept, req_log>>
    /\ UNCHANGED notAV

(***************************************************************************)
(* nasdaq_api_test: NasdaqAPITester.test_stock_quote, test_dividend_data   *)
(* and run_comprehensive_test over its 23 test symbols.                    *)
(***************************************************************************)
NumTestSymbols == 23

\* A TestResult as run_comprehensive_test reads it: price, dividend_yield and
\* annual_dividend are "None", "zero" or "positive".
NqResult(success, price, dividend_yield, annual_dividend) ==
    [success |-> success, price |-> price, dividend_yield |-> dividend_yield,
     annual_dividend |-> annual_dividend]

NqFailure == NqResult(FALSE, "None", "None", "None")

NumberClass(s) == IF FloatValue(s) = 0 THEN "zero" ELSE "positive"

\* price_str = primary_data.get("lastSalePrice", "$0").replace("$", "").replace(",", "")
\* price = float(price_str) if price_str else None
test_stock_quote(resp) ==
    IF resp.net # "ok" \/ resp.status # 200 THEN NqFailure
    ELSE IF resp.body.json # "dict" \/ resp.body.statusField = "null" THEN NqFailure
    ELSE IF resp.body.statusField = "missing" \/ resp.body.rCode # 200 THEN NqFailure
    ELSE IF resp.body.price.kind = "null" THEN NqFailure
    ELSE LET raw       == IF resp.body.price.kind = "missing" THEN <<"$", "0">>
                          ELSE resp.body.price.s
             price_str == Replace(Replace(raw, "$"), ",")
         IN  IF price_str = <<>> THEN NqResult(TRUE, "None", "None", "None")
             ELSE IF FloatParses(price_str)
                  THEN NqResult(TRUE, NumberClass(price_str), "None", "None")
                  ELSE NqFailure

\* The "yield" and "annualizedDividend" entries, after the "%" / "$" and ","
\* are stripped: "N/A", "" and text float() rejects all give None.
DividendField(txt) ==
    IF txt = <<>> \/ ~FloatParses(txt) THEN "None" ELSE NumberClass(txt)

test_dividend_data(resp) ==
    IF resp.net # "ok" \/ resp.status # 200 \/ resp.rCode # 200 THEN NqFailure
    ELSE NqResult(TRUE, "None", DividendField(resp.yield), DividendField(resp.annual))

DividendTexts == {<<"N">>, <<"1", ".", "1">>}

NqDividendResponses ==
    {[net |-> "timeout", status |-> 0, rCode |-> 0, yield |-> <<>>, annual |-> <<>>]}
      \cup [net : {"ok"}, status : {200}, rCode : {200},
            yield : DividendTexts, annual : DividendTexts]

NqQuoteResponses ==
    {r \in Responses :
        \/ r.net = "timeout"
        \/ r.status = 429
        \/ /\ r.status = 200 /\ r.body.json = "dict"
           /\ r.body.statusField = "dict" /\ r.body.rCode = 200
           /\ r.body.price \in {[kind |-> "str", s |-> <<"$", "1">>],
                                [kind |-> "str", s |-> <<"$">>]}}

NqInit ==
    /\ nq_pc = "quotes"
    /\ nq_i = 1
    /\ n_quote_results = 0
    /\ n_successful_quotes = 0
    /\ n_dividend_results = 0
    /\ n_successful_dividends = 0
    /\ dividend_sample = [shown |-> 0, annual_none |-> FALSE]
    /\ quantiles_needs_two \in BOOLEAN

NqIdle ==
    /\ nq_pc = "off"
    /\ nq_i = 1
    /\ n_quote_results = 0
    /\ n_successful_quotes = 0
    /\ n_dividend_results = 0
    /\ n_successful_dividends = 0
    /\ dividend_sample = [shown |-> 0, annual_none |-> FALSE]
    /\ quantiles_needs_two = TRUE

\* One iteration of the quote loop: the result is appended, then printed;
\* the success line formats result.price with :.2f.
NqQuote ==
    /\ nq_pc = "quotes"
    /\ nq_i <= NumTestSymbols
    /\ \E resp \in NqQuoteResponses :
         LET result == test_stock_quote(resp)
         IN  /\ n_quote_results' = n_quote_results + 1
             /\ n_successful_quotes' = n_successful_quotes + (IF result.success THEN 1 ELSE 0)
             /\ IF result.success /\ result.price = "None"
                THEN nq_pc' = "raised" /\ UNCHANGED nq_i
                ELSE /\ nq_i' = IF nq_i = NumTestSymbols THEN 1 ELSE nq_i + 1
                     /\ nq_pc' = IF nq_i = NumTestSymbols THEN "dividends" ELSE "quotes"
    /\ UNCHANGED <<n_dividend_results, n_successful_dividends, dividend_sample,
                   quantiles_needs_two>>
    /\ UNCHANGED notNasdaq

\* One iteration of the dividend loop; the printed line formats the yield and
\* the annual dividend only when they are truthy.
NqDividend ==
    /\ nq_pc = "dividends"
    /\ nq_i <= NumTestSymbols
    /\ \E resp \in NqDividendResponses :
         LET result == test_dividend_data(resp)
         IN  /\ n_dividend_results' = n_dividend_results + 1
             /\ n_successful_dividends' =
                  n_successful_dividends + (IF result.success THEN 1 ELSE 0)
             /\ dividend_sample' =
                  IF result.success /\ result.dividend_yield = "positive"
                       /\ dividend_sample.shown < 5
                  THEN [shown       |-> dividend_sample.shown + 1,
                        annual_none |-> \/ dividend_sample.annual_none
                                        \/ result.annual_dividend = "None"]
                  ELSE dividend_sample
             /\ nq_i' = nq_i + 1
             /\ nq_pc' = IF nq_i = NumTestSymbols THEN "stats" ELSE "dividends"
    /\ UNCHANGED <<n_quote_results, n_successful_quotes, quantiles_needs_two>>
    /\ UNCHANGED notNasdaq

\* statistics.quantiles(times, n=20) on the successful response times
QuantilesRaises(n_times) == n_times < 2 /\ quantiles_needs_two

\* "Performance Analysis": the quote statistics, then the dividend ones, each
\* only when there is a successful result.
NqStats ==
    /\ nq_pc = "stats"
    /\ nq_pc' = IF \/ n_successful_quotes > 0 /\ QuantilesRaises(n_successful_quotes)
                   \/ n_successful_dividends > 0 /\ QuantilesRaises(n_successful_dividends)
                THEN "raised" ELSE "samples"
    /\ UNCHANGED <<nq_i, n_quote_results, n_successful_quotes, n_dividend_results,
                   n_successful_dividends, dividend_sample, quantiles_needs_two>>
    /\ UNCHANGED notNasdaq

\* Data accuracy, error analysis and "Sample Successful Data": the dividend
\* lines format result.annual_dividend with :.2f.
NqSamples ==
    /\ nq_pc = "samples"
    /\ nq_pc' = IF dividend_sample.annual_none THEN "raised" ELSE "report"
    /\ UNCHANGED <<nq_i, n_quote_results, n_successful_quotes, n_dividend_results,
                   n_successful_dividends, dividend_sample, quantiles_needs_two>>
    /\ UNCHANGED notNasdaq

\* The report dict (its rates divide by the number of results), the saved
\* file and the overall assessment.
NqReport ==
    /\ nq_pc = "report"
    /\ nq_pc' = IF n_quote_results = 0 \/ n_dividend_results = 0 THEN "raised"
                ELSE "returned"
    /\ UNCHANGED <<nq_i, n_quote_results, n_successful_quotes, n_dividend_results,
                   n_successful_dividends, dividend_sample, quantiles_needs_two>>
    /\ UNCHANGED notNasdaq

(***************************************************************************)
(* ios_app_simulation_test: HistoricalDataSimulator.simulate_api_call and  *)
(* fetch_with_failover. Rates and random draws are in thousandths.         *)
(***************************************************************************)
MaxFetches == 3

DefaultDays == 30

ProviderNames == {"Yahoo Finance", "EODHD", "Finnhub"}

InitialProviders ==
    [name \in ProviderNames |->
        CASE name = "Yahoo Finance" ->
               [priority |-> 1, base_success_rate |-> 950, rate_limit_threshold |-> 60]
          [] name = "EODHD" ->
               [priority |-> 2, base_success_rate |-> 900, rate_limit_threshold |-> 30]
          [] name = "Finnhub" ->
               [priority |-> 3, base_success_rate |-> 850, rate_limit_threshold |-> 20]]

ProviderStats ==
    [total_requests |-> 0, successful_requests |-> 0, failed_requests |-> 0,
     rate_limit_hits |-> 0]

SimSymbols == {"AAPL", "GOOGL", "MSFT"}

\* Values of random.random(), one inside each interval the thresholds cut
\* (the thresholds of the lowered success rates 0.1 and 0.0 included).
RandomFactors == {25, 75, 125, 500, 950, 990}

NoDataGenerated(symbol, days, provider) == <<>>

\* generate_historical_data: `days` prices of the symbol, tagged with the provider.
generate_historical_data(symbol, days, provider) ==
    [i \in 1..days |-> [symbol |-> symbol, data_source |-> provider]]

RateLimitAfterIncrement(config, stats, random_factor) ==
    IF (stats.total_requests + 1) % config.rate_limit_threshold = 0
    THEN "RATE_LIMITED"
    ELSE IF random_factor < 1000 - config.base_success_rate THEN "FAILURE"
    ELSE IF random_factor > 980 THEN "TIMEOUT"
    ELSE "SUCCESS"

\* simulate_api_call, the outcome: the rate-limit check, the failure draw,
\* the timeout draw.
simulate_api_call(config, stats, random_factor) ==
    IF stats.total_requests % config.rate_limit_threshold = 0 /\ stats.total_requests > 0
    THEN "RATE_LIMITED"
    ELSE IF random_factor < 1000 - config.base_success_rate THEN "FAILURE"
    ELSE IF random_factor > 980 THEN "TIMEOUT"
    ELSE "SUCCESS"

\* sorted(self.providers.items(), key=lambda x: x[1]["priority"])
IsPermutation(seq, S) ==
    /\ Len(seq) = Cardinality(S)
    /\ {seq[i] : i \in 1..Len(seq)} = S

DescendingPriority(config) ==
    CHOOSE seq \in [1..Cardinality(DOMAIN config) -> DOMAIN config] :
        /\ IsPermutation(seq, DOMAIN config)
        /\ \A i, j \in 1..Len(seq) : i < j => config[seq[i]].priority >= config[seq[j]].priority

sorted_providers(config) ==
    CHOOSE seq \in [1..Cardinality(DOMAIN config) -> DOMAIN config] :
        /\ IsPermutation(seq, DOMAIN config)
        /\ \A i, j \in 1..Len(seq) : i < j => config[seq[i]].priority <= config[seq[j]].priority

NoResult == [outcome |-> "none", data |-> <<>>, provider |-> "none"]

SimInit ==
    /\ providers = InitialProviders
    /\ provider_stats = [name \in ProviderNames |-> ProviderStats]
    /\ fo_pc = "idle"
    /\ fo_symbol = "none"
    /\ fo_idx = 1
    /\ fo_result = NoResult
    /\ fo_calls = <<>>
    /\ n_fetches = 0
    /\ n_unlucky = 0

SimIdle ==
    /\ providers = InitialProviders
    /\ provider_stats = [name \in ProviderNames |-> ProviderStats]
    /\ fo_pc = "off"
    /\ fo_symbol = "none"
    /\ fo_idx = 1
    /\ fo_result = NoResult
    /\ fo_calls = <<>>
    /\ n_fetches = 0
    /\ n_unlucky = 0

\* main's run draws random.random() some thirty times and more; the runs
\* followed are those with at most MaxUnluckyDraws draws on which the called
\* provider, as configured at the start, fails or times out.
MaxUnluckyDraws == 2

Unlucky(name, random_factor) ==
    /\ ra_caller = "main"
    /\ simulate_api_call(InitialProviders[name], ProviderStats, random_factor) # "SUCCESS"

DrawFollowed(name, random_factor) == Unlucky(name, random_factor) => n_unlucky < MaxUnluckyDraws

UnluckyAfter(name, random_factor) == n_unlucky + (IF Unlucky(name, random_factor) THEN 1 ELSE 0)

CountsFailureOnly(stats, outcome, hits) ==
    [total_requests      |-> stats.total_requests + 1,
     successful_requests |-> stats.successful_requests
                             + (IF outcome = "SUCCESS" THEN 1 ELSE 0),
     failed_requests     |-> stats.failed_requests
                             + (IF outcome = "FAILURE" THEN 1 ELSE 0),
     rate_limit_hits     |-> hits]

\* The statistics of the attempted provider after the attempt:
\* total_requests += 1, then successful_requests or failed_requests += 1.
UpdateStatistics(stats, outcome, hits) ==
    [total_requests      |-> stats.total_requests + 1,
     successful_requests |-> stats.successful_requests
                             + (IF outcome = "SUCCESS" THEN 1 ELSE 0),
     failed_requests     |-> stats.failed_requests
                             + (IF outcome = "SUCCESS" THEN 0 ELSE 1),
     rate_limit_hits     |-> hits]

\* A caller starts fetch_with_failover(symbol).
FetchStart(symbol) ==
    /\ fo_pc \in {"idle", "returned"}
    /\ n_fetches < MaxFetches
    /\ n_fetches' = n_fetches + 1
    /\ UNCHANGED n_unlucky
    /\ fo_pc' = "loop"
    /\ fo_symbol' = symbol
    /\ fo_idx' = 1
    /\ fo_result' = NoResult
    /\ fo_calls' = <<>>
    /\ UNCHANGED <<providers, provider_stats>>
    /\ UNCHANGED notSim

\* One iteration of the provider loop: the simulated call, the statistics,
\* then the return on SUCCESS or the move to the next provider (after a
\* short sleep when the outcome is RATE_LIMITED).
FetchTryProvider ==
    /\ fo_pc = "loop"
    /\ fo_idx <= Len(sorted_providers(providers))
    /\ \E random_factor \in RandomFactors :
         LET provider_name == sorted_providers(providers)[fo_idx]
             stats   == provider_stats[provider_name]
             outcome == simulate_api_call(providers[provider_name], stats, random_factor)
             hits    == stats.rate_limit_hits + (IF outcome = "RATE_LIMITED" THEN 1 ELSE 0)
             data    == IF outcome = "SUCCESS"
                        THEN generate_historical_data(fo_symbol, DefaultDays, provider_name)
                        ELSE <<>>
         IN  /\ DrawFollowed(provider_name, random_factor)
             /\ n_unlucky' = UnluckyAfter(provider_name, random_factor)
             /\ fo_calls' = Append(fo_calls, [provider |-> provider_name, outcome |-> outcome,
                                              data |-> data])
             /\ IF outcome = "SUCCESS"
                THEN /\ provider_stats' =
                          [provider_stats EXCEPT ![provider_name] =
                              UpdateStatistics(stats, outcome, hits)]
                     /\ fo_result' = [outcome |-> outcome, data |-> data,
                                      provider |-> provider_name]
                     /\ fo_pc' = "returned"
                     /\ UNCHANGED fo_idx
                ELSE /\ provider_stats' =
                          [provider_stats EXCEPT ![provider_name] =
                              UpdateStatistics(stats, outcome, hits)]
                     /\ fo_idx' = fo_idx + 1
                     /\ UNCHANGED <<fo_result, fo_pc>>
    /\ UNCHANGED <<providers, fo_symbol, n_fetches>>
    /\ UNCHANGED notSim

\* All providers failed.
FetchAllFailed ==
    /\ fo_pc = "loop"
    /\ fo_idx > Len(sorted_providers(providers))
    /\ fo_result' = [outcome |-> "FAILURE", data |-> <<>>, provider |-> "None"]
    /\ fo_pc' = "returned"
    /\ UNCHANGED <<providers, provider_stats, fo_symbol, fo_idx, fo_calls, n_fetches, n_unlucky>>
    /\ UNCHANGED notSim

ForcedToThreshold(config) == config.rate_limit_threshold

\* What scenario 3 of test_failover_mechanisms writes to total_requests of
\* Yahoo Finance: self.providers["Yahoo Finance"]["rate_limit_threshold"] - 1
ForcedTotal(config) == config.rate_limit_threshold - 1

\* test_failover_mechanisms, scenario 3, before its fetch:
\* total_requests of Yahoo Finance = rate_limit_threshold - 1
ForceRateLimitScenario ==
    /\ fo_pc \in {"idle", "returned"}
    /\ provider_stats' =
         [provider_stats EXCEPT !["Yahoo Finance"].total_requests =
             providers["Yahoo Finance"].rate_limit_threshold - 1]
    /\ UNCHANGED <<providers, fo_pc, fo_symbol, fo_idx, fo_result, fo_calls, n_fetches, n_unlucky>>
    /\ UNCHANGED notSim

\* test_error_handling, "Rate limiting":
\* total_requests of Yahoo Finance = rate_limit_threshold
ForceRateLimitErrorTest ==
    /\ fo_pc \in {"idle", "returned"}
    /\ provider_stats' =
         [provider_stats EXCEPT !["Yahoo Finance"].total_requests =
             providers["Yahoo Finance"].rate_limit_threshold]
    /\ UNCHANGED <<providers, fo_pc, fo_symbol, fo_idx, fo_result, fo_calls, n_fetches, n_unlucky>>
    /\ UNCHANGED notSim

(***************************************************************************)
(* ios_app_simulation_test: test_failover_mechanisms and                   *)
(* test_error_handling, run on the simulator in any order.                 *)
(***************************************************************************)
MaxRuns == 2

\* self.providers[name]["base_success_rate"] = rate
SetRate(config, name, rate) == [config EXCEPT ![name].base_success_rate = rate]

KeepsLoweredRate(config, name, rate) == config

\* self.providers[name]["base_success_rate"] = <the saved original>
RestoreRate(config, name, original) == SetRate(config, name, original)

\* What simulate_api_call does to the provider's statistics.
StatsAfterCall(stats, outcome) ==
    [stats EXCEPT !.rate_limit_hits = @ + (IF outcome = "RATE_LIMITED" THEN 1 ELSE 0)]

\* The outcomes simulate_api_call can return, over every random draw.
PossibleOutcomes(config, stats) ==
    {simulate_api_call(config, stats, random_factor) : random_factor \in RandomFactors}

ScnInit ==
    /\ tf_pc = "idle"
    /\ tf_scenarios = <<>>
    /\ original_success_rate = 0
    /\ tf_before = InitialProviders
    /\ te_pc = "idle"
    /\ te_scenarios = <<>>
    /\ timeout_tests = <<>>
    /\ original_rate = 0
    /\ te_before = InitialProviders
    /\ n_runs = 0

ScnIdle ==
    /\ tf_pc = "off"
    /\ tf_scenarios = <<>>
    /\ original_success_rate = 0
    /\ tf_before = InitialProviders
    /\ te_pc = "off"
    /\ te_scenarios = <<>>
    /\ timeout_tests = <<>>
    /\ original_rate = 0
    /\ te_before = InitialProviders
    /\ n_runs = 0

NoTestRunning == tf_pc \in {"idle", "returned"} /\ te_pc \in {"idle", "returned"}

\* self.fetch_with_failover(symbol) is called: its loop starts.
CallFetch(symbol) ==
    /\ n_fetches' = n_fetches + 1
    /\ UNCHANGED n_unlucky
    /\ fo_pc' = "loop"
    /\ fo_symbol' = symbol
    /\ fo_idx' = 1
    /\ fo_result' = NoResult
    /\ fo_calls' = <<>>

\* One entry of results["scenarios"] of test_failover_mechanisms; flag is
\* failover_occurred (scenario 2), rate_limited (scenario 3), "none" (scenario 1).
Scenario(name, flag) ==
    [name |-> name, success |-> fo_result.outcome = "SUCCESS",
     provider_used |-> fo_result.provider, data_points |-> Len(fo_result.data),
     flag |-> flag]

\* test_failover_mechanisms is called; scenario 1 calls the AAPL fetch.
TfScenario1 ==
    /\ NoTestRunning
    /\ n_runs < MaxRuns
    /\ n_runs' = n_runs + 1
    /\ tf_pc' = "s1"
    /\ tf_scenarios' = <<>>
    /\ tf_before' = providers
    /\ CallFetch("AAPL")
    /\ UNCHANGED <<providers, provider_stats, original_success_rate>>
    /\ UNCHANGED <<te_pc, te_scenarios, timeout_tests, original_rate, te_before>>
    /\ UNCHANGED notScn

\* Scenario 1 is recorded; scenario 2 lowers the success rate of Yahoo
\* Finance to 0.1 and calls the GOOGL fetch.
TfScenario2 ==
    /\ tf_pc = "s1"
    /\ fo_pc = "returned"
    /\ tf_scenarios' = Append(tf_scenarios, Scenario("Normal Operation", "none"))
    /\ original_success_rate' = providers["Yahoo Finance"].base_success_rate
    /\ providers' = SetRate(providers, "Yahoo Finance", 100)
    /\ tf_pc' = "s2"
    /\ CallFetch("GOOGL")
    /\ UNCHANGED <<provider_stats, tf_before, n_runs>>
    /\ UNCHANGED <<te_pc, te_scenarios, timeout_tests, original_rate, te_before>>
    /\ UNCHANGED notScn

\* Scenario 2 is recorded and the rate restored; scenario 3 sets
\* total_requests of Yahoo Finance to rate_limit_threshold - 1 and calls the
\* MSFT fetch.
TfScenario3 ==
    /\ tf_pc = "s2"
    /\ fo_pc = "returned"
    /\ tf_scenarios' = Append(tf_scenarios,
                              Scenario("Primary Provider Failure",
                                       fo_result.provider # "Yahoo Finance"))
    /\ providers' = RestoreRate(providers, "Yahoo Finance", original_success_rate)
    /\ provider_stats' =
         [provider_stats EXCEPT !["Yahoo Finance"].total_requests =
             ForcedTotal(providers["Yahoo Finance"])]
    /\ tf_pc' = "s3"
    /\ CallFetch("MSFT")
    /\ UNCHANGED <<original_success_rate, tf_before, n_runs>>
    /\ UNCHANGED <<te_pc, te_scenarios, timeout_tests, original_rate, te_before>>
    /\ UNCHANGED notScn

\* Scenario 3 is recorded with rate_limited True; the method returns.
TfReturn ==
    /\ tf_pc = "s3"
    /\ fo_pc = "returned"
    /\ tf_scenarios' = Append(tf_scenarios, Scenario("Rate Limiting Failover", TRUE))
    /\ tf_pc' = "returned"
    /\ UNCHANGED <<original_success_rate, tf_before, n_runs>>
    /\ UNCHANGED <<te_pc, te_scenarios, timeout_tests, original_rate, te_before>>
    /\ UNCHANGED simVars
    /\ UNCHANGED notScn

TimeoutCalls == 3

\* One entry of results["scenarios"] of test_error_handling.
ErrorScenario(name, handled_gracefully, outcome) ==
    [name |-> name, handled_gracefully |-> handled_gracefully, outcome |-> outcome]

\* test_error_handling is called; "Invalid symbol" calls simulate_api_call on
\* Yahoo Finance directly.
TeInvalidSymbol ==
    /\ NoTestRunning
    /\ n_runs < MaxRuns
    /\ n_runs' = n_runs + 1
    /\ te_before' = providers
    /\ \E random_factor \in RandomFactors :
         LET stats   == provider_stats["Yahoo Finance"]
             outcome == simulate_api_call(providers["Yahoo Finance"], stats, random_factor)
         IN  /\ DrawFollowed("Yahoo Finance", random_factor)
             /\ n_unlucky' = UnluckyAfter("Yahoo Finance", random_factor)
             /\ provider_stats' =
                  [provider_stats EXCEPT !["Yahoo Finance"] = StatsAfterCall(stats, outcome)]
             /\ te_scenarios' = <<ErrorScenario("Invalid Symbol",
                                                outcome \in {"FAILURE", "SUCCESS"}, outcome)>>
    /\ te_pc' = "rate_limit"
    /\ timeout_tests' = <<>>
    /\ UNCHANGED <<providers, fo_pc, fo_symbol, fo_idx, fo_result, fo_calls, n_fetches>>
    /\ UNCHANGED <<tf_pc, tf_scenarios, original_success_rate, tf_before, original_rate>>
    /\ UNCHANGED notScn

\* "Rate limiting": total_requests of Yahoo Finance is set to its
\* rate_limit_threshold, then simulate_api_call is called on it.
TeRateLimit ==
    /\ te_pc = "rate_limit"
    /\ \E random_factor \in RandomFactors :
         LET stats   == [provider_stats["Yahoo Finance"] EXCEPT
                            !.total_requests = providers["Yahoo Finance"].rate_limit_threshold]
             outcome == simulate_api_call(providers["Yahoo Finance"], stats, random_factor)
         IN  /\ provider_stats' =
                  [provider_stats EXCEPT !["Yahoo Finance"] = StatsAfterCall(stats, outcome)]
             /\ te_scenarios' = Append(te_scenarios,
                                       ErrorScenario("Rate Limiting",
                                                     outcome = "RATE_LIMITED", outcome))
    /\ te_pc' = "timeout"
    /\ UNCHANGED <<providers, fo_pc, fo_symbol, fo_idx, fo_result, fo_calls, n_fetches, n_unlucky>>
    /\ UNCHANGED <<tf_pc, tf_scenarios, original_success_rate, tf_before, timeout_tests,
                   original_rate, te_before, n_runs>>
    /\ UNCHANGED notScn

\* "Network timeout": the success rate of Finnhub is set to 0.0.
TeTimeoutSetup ==
    /\ te_pc = "timeout"
    /\ original_rate' = providers["Finnhub"].base_success_rate
    /\ providers' = SetRate(providers, "Finnhub", 0)
    /\ timeout_tests' = <<>>
    /\ te_pc' = "timeout_loop"
    /\ UNCHANGED <<provider_stats, fo_pc, fo_symbol, fo_idx, fo_result, fo_calls, n_fetches, n_unlucky>>
    /\ UNCHANGED <<tf_pc, tf_scenarios, original_success_rate, tf_before, te_scenarios,
                   te_before, n_runs>>
    /\ UNCHANGED notScn

\* One of the three simulate_api_call calls on Finnhub.
TeTimeoutCall ==
    /\ te_pc = "timeout_loop"
    /\ Len(timeout_tests) < TimeoutCalls
    /\ \E random_factor \in RandomFactors :
         LET stats   == provider_stats["Finnhub"]
             outcome == simulate_api_call(providers["Finnhub"], stats, random_factor)
         IN  /\ provider_stats' =
                  [provider_stats EXCEPT !["Finnhub"] = StatsAfterCall(stats, outcome)]
             /\ timeout_tests' = Append(timeout_tests, outcome)
    /\ UNCHANGED <<providers, fo_pc, fo_symbol, fo_idx, fo_result, fo_calls, n_fetches, n_unlucky>>
    /\ UNCHANGED <<tf_pc, tf_scenarios, original_success_rate, tf_before, te_pc,
                   te_scenarios, original_rate, te_before, n_runs>>
    /\ UNCHANGED notScn

\* The rate of Finnhub is restored, the scenario recorded; the method returns.
TeReturn ==
    /\ te_pc = "timeout_loop"
    /\ Len(timeout_tests) = TimeoutCalls
    /\ providers' = RestoreRate(providers, "Finnhub", original_rate)
    /\ te_scenarios' =
         Append(te_scenarios,
                ErrorScenario("Network Timeout",
                              \E k \in 1..Len(timeout_tests) :
                                  timeout_tests[k] \in {"TIMEOUT", "FAILURE"},
                              "timeout_simulated"))
    /\ te_pc' = "returned"
    /\ UNCHANGED <<provider_stats, fo_pc, fo_symbol, fo_idx, fo_result, fo_calls, n_fetches, n_unlucky>>
    /\ UNCHANGED <<tf_pc, tf_scenarios, original_success_rate, tf_before, timeout_tests,
                   original_rate, te_before, n_runs>>
    /\ UNCHANGED notScn

(***************************************************************************)
(* ios_app_simulation_test: HistoricalDataSimulator.check_cache and        *)
(* store_in_cache, with the two statements test_caching_mechanisms applies *)
(* to the caches. Time is in minutes.                                      *)
(***************************************************************************)
MaxCacheOps == 4

MaxElapses == 2

MemoryExpiryMinutes == 5

DiskExpiryMinutes == 60

CacheTypes == {"memory", "disk"}

CacheSymbols == {"AAPL", "GOOGL"}

\* Lengths of time that pass between two calls.
Elapses == {5, 60}

\* The lists a caller stores: generated data of the symbol.
CacheData(symbol) == {generate_historical_data(symbol, 1, "Yahoo Finance")}

\* expiry_minutes = 5 if cache_type == "memory" else 60
expiry_minutes(cache_type) ==
    IF cache_type = "memory" THEN MemoryExpiryMinutes ELSE DiskExpiryMinutes

\* CacheEntry(symbol, data, timestamp, expiry); the timestamp, which nothing
\* reads, is left out.
CacheEntry(symbol, data, expiry) ==
    [symbol |-> symbol, data |-> data, expiry |-> expiry, hit_count |-> 0]

ExpiresInclusive(time, entry) == time <= entry.expiry

\* datetime.now() < entry.expiry
NotExpired(time, entry) == time < entry.expiry

\* del cache[symbol]
Delete(cache, symbol) == [k \in DOMAIN cache \ {symbol} |-> cache[k]]

\* cache[symbol] = entry
Put(cache, symbol, entry) ==
    [k \in DOMAIN cache \cup {symbol} |-> IF k = symbol THEN entry ELSE cache[k]]

NoCall == [op |-> "none", symbol |-> "none", cache_type |-> "none",
           ret |-> [kind |-> "none", data |-> <<>>], expired |-> FALSE]

\* check_cache on one cache: the cache afterwards, the value returned,
\* whether the expired branch ran.
check_cache(cache, symbol, time) ==
    IF symbol \in DOMAIN cache
    THEN IF NotExpired(time, cache[symbol])
         THEN [cache   |-> [cache EXCEPT ![symbol].hit_count = @ + 1],
               ret     |-> [kind |-> "data", data |-> cache[symbol].data],
               expired |-> FALSE]
         ELSE [cache   |-> Delete(cache, symbol),
               ret     |-> [kind |-> "None", data |-> <<>>],
               expired |-> TRUE]
    ELSE [cache |-> cache, ret |-> [kind |-> "None", data |-> <<>>], expired |-> FALSE]

CacheInit ==
    /\ memory_cache = <<>>
    /\ disk_cache = <<>>
    /\ now = 0
    /\ cc_last = NoCall
    /\ n_cache_ops = 0
    /\ n_elapses = 0

CacheIdle ==
    /\ memory_cache = <<>>
    /\ disk_cache = <<>>
    /\ now = -1
    /\ cc_last = NoCall
    /\ n_cache_ops = 0
    /\ n_elapses = 0

\* self.check_cache(symbol, cache_type)
CheckCache(symbol, cache_type) ==
    /\ n_cache_ops < MaxCacheOps
    /\ n_cache_ops' = n_cache_ops + 1
    /\ LET checked == check_cache(IF cache_type = "memory" THEN memory_cache ELSE disk_cache,
                                  symbol, now)
       IN  /\ IF cache_type = "memory"
              THEN memory_cache' = checked.cache /\ UNCHANGED disk_cache
              ELSE disk_cache' = checked.cache /\ UNCHANGED memory_cache
           /\ cc_last' = [op |-> "check", symbol |-> symbol, cache_type |-> cache_type,
                          ret |-> checked.ret, expired |-> checked.expired]
    /\ UNCHANGED <<now, n_elapses>>
    /\ UNCHANGED notCache

\* self.store_in_cache(symbol, data, cache_type)
StoreInCache(symbol, data, cache_type) ==
    /\ n_cache_ops < MaxCacheOps
    /\ n_cache_ops' = n_cache_ops + 1
    /\ LET entry == CacheEntry(symbol, data, now + expiry_minutes(cache_type))
       IN  IF cache_type = "memory"
           THEN memory_cache' = Put(memory_cache, symbol, entry) /\ UNCHANGED disk_cache
           ELSE disk_cache' = Put(disk_cache, symbol, entry) /\ UNCHANGED memory_cache
    /\ cc_last' = [op |-> "store", symbol |-> symbol, cache_type |-> cache_type,
                   ret |-> [kind |-> "None", data |-> <<>>], expired |-> FALSE]
    /\ UNCHANGED <<now, n_elapses>>
    /\ UNCHANGED notCache

\* test_caching_mechanisms: self.memory_cache.clear()
ClearMemoryCache ==
    /\ memory_cache # <<>>
    /\ memory_cache' = <<>>
    /\ UNCHANGED <<disk_cache, now, cc_last, n_cache_ops, n_elapses>>
    /\ UNCHANGED notCache

\* test_caching_mechanisms: self.disk_cache[symbol].expiry = now - 1 minute
ForceExpiry(symbol) ==
    /\ symbol \in DOMAIN disk_cache
    /\ disk_cache[symbol].expiry # now - 1
    /\ disk_cache' = [disk_cache EXCEPT ![symbol].expiry = now - 1]
    /\ UNCHANGED <<memory_cache, now, cc_last, n_cache_ops, n_elapses>>
    /\ UNCHANGED notCache

\* Time passes between two calls.
Elapse(minutes) ==
    /\ n_elapses < MaxElapses
    /\ n_elapses' = n_elapses + 1
    /\ now' = now + minutes
    /\ UNCHANGED <<memory_cache, disk_cache, cc_last, n_cache_ops>>
    /\ UNCHANGED notCache

(***************************************************************************)
(* ios_app_simulation_test: the prices generate_historical_data produces.  *)
(* Unrounded prices are in 1/1000 of a dollar, factors in thousandths,     *)
(* rounded prices in cents.                                                *)
(***************************************************************************)
\* random.uniform(50, 300)
BasePrices == {50000, 300000}

\* 1 + random.uniform(-0.05, 0.05)
DailyFactors == {950, 1050}

\* random.uniform(0.98, 1.02)
OpenCloseFactors == {980, 1020}

\* random.uniform(1.0, 1.03)
HighFactors == {1000, 1030}

\* random.uniform(0.97, 1.0)
LowFactors == {970, 1000}

\* price * factor
Times(price, factor) == (price * factor) \div 1000

\* round(price, 2), in cents
Round2(price) == (price + 5) \div 10

Max(a, b) == IF a >= b THEN a ELSE b

Min(a, b) == IF a <= b THEN a ELSE b

OpenOnly(open_price, close_price) == open_price

\* max(open_price, close_price), the price high_price is drawn above
HighBase(open_price, close_price) == Max(open_price, close_price)

\* min(open_price, close_price), the price low_price is drawn below
LowBase(open_price, close_price) == Min(open_price, close_price)

\* The HistoricalPrice of one day, from the day's base price and four draws.
HistoricalPrice(base, open_factor, close_factor, high_factor, low_factor) ==
    LET open_price  == Times(base, open_factor)
        close_price == Times(base, close_factor)
        high_price  == Times(HighBase(open_price, close_price), high_factor)
        low_price   == Times(LowBase(open_price, close_price), low_factor)
    IN  [open_price  |-> Round2(open_price),
         high_price  |-> Round2(high_price),
         low_price   |-> Round2(low_price),
         close_price |-> Round2(close_price)]

\* HistoricalPrice.is_valid
is_valid(price) ==
    /\ price.open_price > 0 /\ price.high_price > 0
    /\ price.low_price > 0 /\ price.close_price > 0
    /\ price.high_price >= price.low_price
    /\ price.open_price >= price.low_price /\ price.open_price <= price.high_price
    /\ price.close_price >= price.low_price /\ price.close_price <= price.high_price

NoPrice == [open_price |-> 0, high_price |-> 0, low_price |-> 0, close_price |-> 0]

GenInit ==
    /\ g_pc = "loop"
    /\ g_days = DefaultDays
    /\ base_price \in BasePrices
    /\ g_len = 0
    /\ g_price = NoPrice

GenIdle ==
    /\ g_pc = "off"
    /\ g_days = 0
    /\ base_price = 0
    /\ g_len = 0
    /\ g_price = NoPrice

\* One iteration of the loop over the days.
GenDay ==
    /\ g_pc = "loop"
    /\ g_len < g_days
    /\ \E daily_factor \in DailyFactors :
       \E open_factor \in OpenCloseFactors, close_factor \in OpenCloseFactors :
       \E high_factor \in HighFactors, low_factor \in LowFactors :
          /\ base_price' = Times(base_price, daily_factor)
          /\ g_price' = HistoricalPrice(base_price', open_factor, close_factor,
                                        high_factor, low_factor)
    /\ g_len' = g_len + 1
    /\ UNCHANGED <<g_pc, g_days>>
    /\ UNCHANGED notGen

\* return data
GenReturn ==
    /\ g_pc = "loop"
    /\ g_len = g_days
    /\ g_pc' = "returned"
    /\ UNCHANGED <<g_days, base_price, g_len, g_price>>
    /\ UNCHANGED notGen

(***************************************************************************)
(* comprehensive_historical_data_test: HistoricalDataTestRunner            *)
(* .run_all_tests and main.                                                *)
(***************************************************************************)
MaxRunnerSymbols == 1

\* The names of suite_configs, in its order.
SuiteNames ==
    <<"Basic Functionality", "Failover Mechanisms", "Error Handling",
      "Caching Mechanisms", "Core Data Integration", "Performance Tests">>

TestResult(name, status) == [name |-> name, status |-> status]

\* A list of n results that all passed.
AllPassed(name, n) == [k \in 1..n |-> TestResult(<<name, k>>, "PASSED")]

RaisedOutcome == [kind |-> "raise", results |-> <<>>]

ReturnedOutcome(results) == [kind |-> "return", results |-> results]

\* test_basic_functionality: one result per provider, PASSED or FAILED with
\* the (per-process) value of hash(provider + "AAPL").
test_basic_functionality ==
    {ReturnedOutcome([k \in 1..3 |-> TestResult(<<"Basic Functionality", k>>, statuses[k])]) :
        statuses \in [1..3 -> {"PASSED", "FAILED"}]}

\* test_performance_concurrent: two PASSED results; the division by
\* concurrent_time raises ZeroDivisionError when test_symbols is empty.
test_performance_concurrent(n_symbols) ==
    IF n_symbols = 0 THEN {RaisedOutcome}
    ELSE {ReturnedOutcome(AllPassed("Performance", 2))}

\* What test_func() can do for the suite at position i: the results its code
\* builds, or an exception raised while it runs.
SuiteOutcomes(i, n_symbols) ==
    {RaisedOutcome} \cup
    CASE i = 1 -> test_basic_functionality
      [] i = 2 -> {ReturnedOutcome(AllPassed("Failover Test", 3))}
      [] i = 3 -> {ReturnedOutcome(AllPassed("Error Handling", 5))}
      [] i = 4 -> {ReturnedOutcome(AllPassed("Caching", 5))}
      [] i = 5 -> {ReturnedOutcome(AllPassed("Core Data", 5))}
      [] i = 6 -> test_performance_concurrent(n_symbols)

\* sum(1 for r in results if r.status == status)
CountStatus(results, status) ==
    Cardinality({k \in 1..Len(results) : results[k].status = status})

\* The TestSuite built from the results a suite function returned.
TestSuite(suite_name, results) ==
    [name          |-> suite_name,
     results       |-> results,
     passed_count  |-> CountStatus(results, "PASSED"),
     failed_count  |-> CountStatus(results, "FAILED"),
     skipped_count |-> CountStatus(results, "SKIPPED")]

EmptySuiteError(suite_name) ==
    [name |-> suite_name, results |-> <<>>,
     passed_count |-> 0, failed_count |-> 0, skipped_count |-> 0]

\* The TestSuite the except clause builds.
SuiteError(suite_name) ==
    [name          |-> suite_name,
     results       |-> <<TestResult(<<suite_name, 0>>, "FAILED")>>,
     passed_count  |-> 0,
     failed_count  |-> 1,
     skipped_count |-> 0]

RECURSIVE SumFailed(_)
\* sum(suite.failed_count for suite in test_suites.values())
SumFailed(suites) ==
    IF suites = <<>> THEN 0 ELSE Head(suites).failed_count + SumFailed(Tail(suites))

AlwaysZero(total_failed) == 0

\* return 0 if total_failed == 0 else 1
ExitCode(total_failed) == IF total_failed = 0 THEN 0 ELSE 1

RunInit ==
    /\ r_pc = "suites"
    /\ n_test_symbols \in 0..MaxRunnerSymbols
    /\ r_i = 1
    /\ test_suites = <<>>
    /\ r_outcomes = <<>>
    /\ exit_code = -1
    /\ r_raised = FALSE

RunIdle ==
    /\ r_pc = "off"
    /\ n_test_symbols = 0
    /\ r_i = 1
    /\ test_suites = <<>>
    /\ r_outcomes = <<>>
    /\ exit_code = -1
    /\ r_raised = FALSE

\* One iteration of the loop over suite_configs: the call of test_func, then
\* the counting, or the except clause.
RunSuite ==
    /\ r_pc = "suites"
    /\ r_i <= Len(SuiteNames)
    /\ \E outcome \in SuiteOutcomes(r_i, n_test_symbols) :
         /\ r_outcomes' = Append(r_outcomes, outcome)
         /\ test_suites' =
              Append(test_suites,
                     IF outcome.kind = "return"
                     THEN TestSuite(SuiteNames[r_i], outcome.results)
                     ELSE SuiteError(SuiteNames[r_i]))
    /\ r_i' = r_i + 1
    /\ UNCHANGED <<r_pc, n_test_symbols, exit_code, r_raised>>
    /\ UNCHANGED notRun

\* run_all_tests returns test_suites to main.
RunAllTestsReturn ==
    /\ r_pc = "suites"
    /\ r_i > Len(SuiteNames)
    /\ r_pc' = "report"
    /\ UNCHANGED <<n_test_symbols, r_i, test_suites, r_outcomes, exit_code, r_raised>>
    /\ UNCHANGED notRun

\* main builds, prints and saves the report (writing the two files can
\* raise), then returns the exit code or, from its except clause, 1.
MainReport ==
    /\ r_pc = "report"
    /\ \E written \in BOOLEAN :
         IF written
         THEN exit_code' = ExitCode(SumFailed(test_suites)) /\ r_raised' = FALSE
         ELSE exit_code' = 1 /\ r_raised' = TRUE
    /\ r_pc' = "exited"
    /\ UNCHANGED <<n_test_symbols, r_i, test_suites, r_outcomes>>
    /\ UNCHANGED notRun

(***************************************************************************)
(* direct_api_endpoint_test: DirectAPITester.test_eodhd_api and            *)
(* test_finnhub_api.                                                       *)
(***************************************************************************)
MaxDirectSymbols == 3

DirectNames == <<"AAPL", "GOOGL", "MSFT">>

\* The first n entries of a test_symbols list that repeats DirectNames.
DirectSymbolList(n) == [k \in 1..n |-> DirectNames[((k - 1) % Len(DirectNames)) + 1]]

\* The api_key argument: None, the empty string, a key.
ApiKeys == {[kind |-> "None", s |-> <<>>], [kind |-> "str", s |-> <<>>],
            [kind |-> "str", s |-> <<"k">>]}

RejectsNoneOnly(api_key) == api_key.kind = "None"

\* not api_key
NoKey(api_key) == api_key.kind = "None" \/ api_key.s = <<>>

DirectResult(symbol, success, error, data_points) ==
    [symbol |-> symbol, success |-> success, error |-> error, data_points |-> data_points]

NoKeyEntry == DirectResult("ALL", FALSE, "No API key provided", 0)

\* Items of an EODHD list: the four prices present and not None or not, the
\* "date", "close" and "volume" keys present or not.
EodhdItems == {[prices |-> TRUE, keys |-> TRUE], [prices |-> FALSE, keys |-> TRUE],
               [prices |-> FALSE, keys |-> FALSE]}

\* What session.get answers: a network error or timeout, or a status with a
\* body; the body does not parse as JSON, or is a dict, or is a list of items.
EodhdResponses ==
    {[net |-> "exc", status |-> 0, json |-> "bad", data |-> <<>>],
     [net |-> "ok", status |-> 401, json |-> "dict", data |-> <<>>],
     [net |-> "ok", status |-> 200, json |-> "bad", data |-> <<>>],
     [net |-> "ok", status |-> 200, json |-> "dict", data |-> <<>>]} \cup
    {[net |-> "ok", status |-> 200, json |-> "list", data |-> data] :
        data \in {<<>>} \cup {<<first, last>> : first \in EodhdItems, last \in EodhdItems}}

_analyze_eodhd_response(symbol, resp) ==
    IF resp.json # "list"
    THEN DirectResult(symbol, FALSE, "Invalid response format", 0)
    ELSE IF resp.data # <<>> /\ (~resp.data[1].keys \/ ~resp.data[Len(resp.data)].keys)
    THEN DirectResult(symbol, FALSE, "Response parsing error", 0)
    ELSE DirectResult(symbol, TRUE, "None", Len(resp.data))

_test_eodhd_symbol(symbol, resp) ==
    IF resp.net = "exc" THEN DirectResult(symbol, FALSE, "str(e)", 0)
    ELSE IF resp.status # 200 THEN DirectResult(symbol, FALSE, "HTTP", 0)
    ELSE IF resp.json = "bad" THEN DirectResult(symbol, FALSE, "str(e)", 0)
    ELSE _analyze_eodhd_response(symbol, resp)

\* Finnhub bodies: not a dict, or a dict with its "s" field, the length of
\* "t" and the length of the price arrays.
FinnhubResponses ==
    {[net |-> "exc", status |-> 0, json |-> "bad", s |-> "none", t |-> 0, prices |-> 0],
     [net |-> "ok", status |-> 429, json |-> "dict", s |-> "none", t |-> 0, prices |-> 0],
     [net |-> "ok", status |-> 200, json |-> "bad", s |-> "none", t |-> 0, prices |-> 0],
     [net |-> "ok", status |-> 200, json |-> "list", s |-> "none", t |-> 0, prices |-> 0],
     [net |-> "ok", status |-> 200, json |-> "dict", s |-> "no_data", t |-> 0, prices |-> 0]}
    \cup
    {[net |-> "ok", status |-> 200, json |-> "dict", s |-> "ok", t |-> t, prices |-> prices] :
        t \in 0..2, prices \in 0..2}

_analyze_finnhub_response(symbol, resp) ==
    IF resp.json # "dict" THEN DirectResult(symbol, FALSE, "Response parsing error", 0)
    ELSE IF resp.s # "ok" THEN DirectResult(symbol, FALSE, "API error", 0)
    ELSE IF resp.prices < resp.t
    THEN DirectResult(symbol, FALSE, "Response parsing error", 0)
    ELSE DirectResult(symbol, TRUE, "None", resp.t)

_test_finnhub_symbol(symbol, resp) ==
    IF resp.net = "exc" THEN DirectResult(symbol, FALSE, "str(e)", 0)
    ELSE IF resp.status # 200 THEN DirectResult(symbol, FALSE, "HTTP", 0)
    ELSE IF resp.json = "bad" THEN DirectResult(symbol, FALSE, "str(e)", 0)
    ELSE _analyze_finnhub_response(symbol, resp)

DirectInit ==
    /\ da_fn = "none"
    /\ da_api_key \in ApiKeys
    /\ da_symbols \in {DirectSymbolList(n) : n \in 0..MaxDirectSymbols}
    /\ da_pc = "idle"
    /\ da_i = 1
    /\ da_tests = <<>>
    /\ da_requests = <<>>

DirectIdle ==
    /\ da_fn = "none"
    /\ da_api_key = [kind |-> "None", s |-> <<>>]
    /\ da_symbols = <<>>
    /\ da_pc = "off"
    /\ da_i = 1
    /\ da_tests = <<>>
    /\ da_requests = <<>>

\* test_eodhd_api(api_key) or test_finnhub_api(api_key) is called: without a
\* key it returns the single "No API key provided" entry, with one it opens
\* the session and enters the loop.
CallKeyed(fn) ==
    /\ da_pc = "idle"
    /\ da_fn' = fn
    /\ IF NoKey(da_api_key)
       THEN da_tests' = <<NoKeyEntry>> /\ da_pc' = "returned"
       ELSE da_tests' = <<>> /\ da_pc' = "loop"
    /\ UNCHANGED <<da_api_key, da_symbols, da_i, da_requests>>
    /\ UNCHANGED notDirect

\* One iteration of test_eodhd_api's loop over self.test_symbols.
EodhdSymbol ==
    /\ da_pc = "loop"
    /\ da_fn = "eodhd"
    /\ da_i <= Len(da_symbols)
    /\ \E resp \in EodhdResponses :
         da_tests' = Append(da_tests, _test_eodhd_symbol(da_symbols[da_i], resp))
    /\ da_requests' = Append(da_requests, da_symbols[da_i])
    /\ da_i' = da_i + 1
    /\ UNCHANGED <<da_fn, da_api_key, da_symbols, da_pc>>
    /\ UNCHANGED notDirect

\* One iteration of test_finnhub_api's loop over self.test_symbols.
FinnhubSymbol ==
    /\ da_pc = "loop"
    /\ da_fn = "finnhub"
    /\ da_i <= Len(da_symbols)
    /\ \E resp \in FinnhubResponses :
         da_tests' = Append(da_tests, _test_finnhub_symbol(da_symbols[da_i], resp))
    /\ da_requests' = Append(da_requests, da_symbols[da_i])
    /\ da_i' = da_i + 1
    /\ UNCHANGED <<da_fn, da_api_key, da_symbols, da_pc>>
    /\ UNCHANGED notDirect

\* The loop is over: return results.
KeyedReturn ==
    /\ da_pc = "loop"
    /\ da_i > Len(da_symbols)
    /\ da_pc' = "returned"
    /\ UNCHANGED <<da_fn, da_api_key, da_symbols, da_i, da_tests, da_requests>>
    /\ UNCHANGED notDirect

(***************************************************************************)
(* direct_api_endpoint_test.py: DirectAPITester._test_yahoo_symbol and     *)
(* _analyze_yahoo_response.                                                *)
(***************************************************************************)

\* Bound on the length of the "timestamp" array and of the price arrays.
MaxDataPoints == 2

\* The symbols the file passes: a test symbol and the invalid one.
YahooSymbols == {"AAPL", "INVALID123"}

\* An item of a price array: null or a number.
PriceItems == {"None", "number"}

PriceArrays == UNION {[1..k -> PriceItems] : k \in 0..MaxDataPoints}

\* Arrays without a null.
NumberArrays == {[i \in 1..k |-> "number"] : k \in 0..MaxDataPoints}

\* A JSON body.  json: the body does not parse ("bad"), is a list or is a
\* dict.  chart: the "chart" key is missing, null or a dict.  result: the
\* "result" key of the chart is missing, null, [] or holds one result.
\* timestamp: the number of timestamps of that result.  quote: the "quote"
\* key of its indicators is missing, [] or holds one dict, whose four price
\* arrays follow (a missing key reads as []); nulls are drawn for "open" and
\* "close", every length for all four.
YahooBody(json, chart, result, timestamp, quote, open, high, low, close) ==
    [json |-> json, chart |-> chart, result |-> result, timestamp |-> timestamp,
     quote |-> quote, open |-> open, high |-> high, low |-> low, close |-> close]

NoBodyYet == YahooBody("none", "missing", "missing", 0, "missing", <<>>, <<>>, <<>>, <<>>)

YahooBodies ==
    {YahooBody(json, "missing", "missing", 0, "missing", <<>>, <<>>, <<>>, <<>>) :
        json \in {"bad", "list", "dict"}}
    \cup {YahooBody("dict", "None", "missing", 0, "missing", <<>>, <<>>, <<>>, <<>>)}
    \cup {YahooBody("dict", "dict", result, 0, "missing", <<>>, <<>>, <<>>, <<>>) :
            result \in {"missing", "None", "empty"}}
    \cup {YahooBody("dict", "dict", "one", t, quote, <<>>, <<>>, <<>>, <<>>) :
            t \in 0..MaxDataPoints, quote \in {"missing", "empty"}}
    \cup {YahooBody("dict", "dict", "one", t, "one", open, high, low, close) :
            t \in 0..MaxDataPoints, open \in PriceArrays, high \in NumberArrays,
            low \in NumberArrays, close \in PriceArrays}

\* What session.get does: it raises (a timeout, a connection error) or it
\* answers with a status and a body.
YahooResponses ==
    {[net |-> net, status |-> 0, body |-> NoBodyYet] : net \in {"TimeoutError", "ClientError"}}
    \cup {[net |-> "ok", status |-> status, body |-> NoBodyYet] : status \in {404, 429, 500}}
    \cup {[net |-> "ok", status |-> 200, body |-> body] : body \in YahooBodies}

NoResponse == [net |-> "none", status |-> 0, body |-> NoBodyYet]

\* The record a call returns.  "error" is "None" for Python's None;
\* valid_prices is -1 where the record has no such key.
YahooRecord(symbol, success, error, data_points, valid_prices) ==
    [symbol |-> symbol, success |-> success, error |-> error,
     data_points |-> data_points, valid_prices |-> valid_prices]

YahooFailure(symbol, error) == YahooRecord(symbol, FALSE, error, 0, -1)

NoRecord == YahooRecord("", FALSE, "None", -1, -1)

\* What a block of Python does: it returns a record or raises an exception.
YReturn(record) == [raised |-> FALSE, exc |-> "none", ret |-> record]

YRaise(exc) == [raised |-> TRUE, exc |-> exc, ret |-> NoRecord]

NotCalled == [raised |-> FALSE, exc |-> "none", ret |-> NoRecord]

\* The classes an "except Exception" clause catches.
CatchesTimeoutOnly(exc) == exc = "TimeoutError"

IsException(exc) ==
    exc \in {"TimeoutError", "ClientError", "ContentTypeError", "AttributeError",
             "IndexError", "TypeError"}

\* array[i] with i counted from 1: IndexError past the end.
InRange(array, i) == i <= Len(array)

\* The try block of _analyze_yahoo_response.
AnalyzeYahooBody(symbol, data) ==
    IF data.json # "dict" THEN YRaise("AttributeError")          \* data.get
    ELSE IF data.chart = "None" THEN YRaise("AttributeError")    \* chart.get
    ELSE IF data.chart = "missing" \/ data.result # "one"
    THEN YReturn(YahooFailure(symbol, "No chart data"))
    ELSE IF data.quote # "one"
    THEN YReturn(YahooFailure(symbol, "No quote data"))
    ELSE LET data_points == data.timestamp
             arrays == {data.open, data.high, data.low, data.close}
         IN  IF \E i \in 1..data_points : \E a \in arrays : ~InRange(a, i)
             THEN YRaise("IndexError")
             ELSE YReturn(YahooRecord(symbol, TRUE, "None", data_points,
                     Cardinality({i \in 1..data_points :
                                     \A a \in arrays : a[i] # "None"})))

_analyze_yahoo_response(symbol, data) ==
    LET body == AnalyzeYahooBody(symbol, data)
    IN  IF body.raised /\ IsException(body.exc)
        THEN YReturn(YahooFailure(symbol, "Response parsing error"))
        ELSE body

\* The try block of _test_yahoo_symbol: session.get, then the status test.
YahooTryBlock(symbol, resp) ==
    IF resp.net # "ok" THEN YRaise(resp.net)
    ELSE IF resp.status # 200 THEN YReturn(YahooFailure(symbol, "HTTP"))
    ELSE IF resp.body.json = "bad" THEN YRaise("ContentTypeError")   \* response.json()
    ELSE _analyze_yahoo_response(symbol, resp.body)

_test_yahoo_symbol(symbol, resp) ==
    LET body == YahooTryBlock(symbol, resp)
    IN  IF body.raised /\ body.exc = "TimeoutError"
        THEN YReturn(YahooFailure(symbol, "Timeout"))
        ELSE IF body.raised /\ IsException(body.exc)
        THEN YReturn(YahooFailure(symbol, "str(e)"))
        ELSE body

YahooInit ==
    /\ y_pc = "idle"
    /\ y_symbol = ""
    /\ y_resp = NoResponse
    /\ y_out = NotCalled

YahooIdle ==
    /\ y_pc = "off"
    /\ y_symbol = ""
    /\ y_resp = NoResponse
    /\ y_out = NotCalled

\* _test_yahoo_symbol(session, symbol) is called and issues session.get.
YahooRequest(symbol) ==
    /\ y_pc \in {"idle", "returned"}
    /\ y_pc' = "requested"
    /\ y_symbol' = symbol
    /\ y_resp' = NoResponse
    /\ y_out' = NotCalled
    /\ UNCHANGED notYahoo

\* session.get is over; the call runs to its end.
YahooAnswer ==
    /\ y_pc = "requested"
    /\ \E resp \in YahooResponses :
         /\ y_resp' = resp
         /\ y_out' = _test_yahoo_symbol(y_symbol, resp)
    /\ y_pc' = "returned"
    /\ UNCHANGED y_symbol
    /\ UNCHANGED notYahoo

(***************************************************************************)
(* direct_api_endpoint_test.py: DirectAPITester.test_error_scenarios.      *)
(***************************************************************************)

\* range(10): the concurrent AAPL requests of the rate limiting test.
RapidRequests == 10

\* A body with one complete data point.
OnePointBody ==
    YahooBody("dict", "dict", "one", 1, "one", <<"number">>, <<"number">>, <<"number">>,
              <<"number">>)

\* What Yahoo answers for the unknown symbol: 404, or a chart without result.
InvalidSymbolResponses ==
    {[net |-> "ok", status |-> 404, body |-> NoBodyYet],
     [net |-> "ok", status |-> 200,
      body |-> YahooBody("dict", "dict", "None", 0, "missing", <<>>, <<>>, <<>>, <<>>)]}

\* What one of the rapid requests gets: data, a 429, or a timeout.
RapidResponses ==
    {[net |-> "ok", status |-> 200, body |-> OnePointBody],
     [net |-> "ok", status |-> 429, body |-> NoBodyYet],
     [net |-> "TimeoutError", status |-> 0, body |-> NoBodyYet]}

\* An entry of results["tests"]; -1 stands for a key the entry does not have.
ErrorEntry(scenario, success, error, data_points, total_requests, successful_requests) ==
    [scenario |-> scenario, success |-> success, error |-> error,
     data_points |-> data_points, total_requests |-> total_requests,
     successful_requests |-> successful_requests]

\* sum(1 for r in responses if isinstance(r, dict) and r.get("success", False))
RECURSIVE CountSuccessful(_)
CountSuccessful(responses) ==
    IF responses = <<>> THEN 0
    ELSE (IF ~Head(responses).raised /\ Head(responses).ret.success THEN 1 ELSE 0)
         + CountSuccessful(Tail(responses))

RateLimitingEntry(responses) ==
    LET successful == CountSuccessful(responses)
    IN  ErrorEntry("Rate Limiting Test", TRUE,
                   IF successful > 0 THEN "None" ELSE "All requests failed",
                   -1, RapidRequests, successful)

ErrInit ==
    /\ es_pc = "idle"
    /\ es_tests = <<>>
    /\ rate_limit_responses = <<>>

ErrIdle ==
    /\ es_pc = "off"
    /\ es_tests = <<>>
    /\ rate_limit_responses = <<>>

\* The invalid symbol test: one _test_yahoo_symbol call, its record tagged
\* with the scenario and appended; the ten tasks are then created.
InvalidSymbolTest ==
    /\ es_pc = "idle"
    /\ \E resp \in InvalidSymbolResponses :
         LET r == _test_yahoo_symbol("INVALID123", resp).ret
         IN  es_tests' = <<ErrorEntry("Invalid Symbol", r.success, r.error, r.data_points,
                                      -1, -1)>>
    /\ es_pc' = "gather"
    /\ UNCHANGED rate_limit_responses
    /\ UNCHANGED notErr

\* asyncio.gather: the next task's result takes its place in the list, which
\* is in task order whatever the order of completion.
RapidRequestDone ==
    /\ es_pc = "gather"
    /\ Len(rate_limit_responses) < RapidRequests
    /\ \E resp \in RapidResponses :
         rate_limit_responses' = Append(rate_limit_responses, _test_yahoo_symbol("AAPL", resp))
    /\ UNCHANGED <<es_pc, es_tests>>
    /\ UNCHANGED notErr

\* gather is over: the Rate Limiting Test entry is appended and results
\* returned.
RateLimitingTest ==
    /\ es_pc = "gather"
    /\ Len(rate_limit_responses) = RapidRequests
    /\ es_tests' = Append(es_tests, RateLimitingEntry(rate_limit_responses))
    /\ es_pc' = "returned"
    /\ UNCHANGED rate_limit_responses
    /\ UNCHANGED notErr

(***************************************************************************)
(* api_test_validation.py: APITester.validate_api_responses.               *)
(***************************************************************************)

\* self.test_symbols
SymbolsTested == <<"AAPL", "MSFT", "SPY", "SCHD", "VYM", "INVALID_SYMBOL">>

ValidationSymbols == {SymbolsTested[k] : k \in 1..Len(SymbolsTested)}

\* validation_report['apis_tested']
ApisTested == {"yahoo_chart", "yahoo_quotesummary", "iex_sandbox"}

\* The 'status' of the results of one API, symbol by symbol: a test that
\* got as far as the first t symbols, each with a success or a failure, and
\* "absent" where all_results holds no result of the API for the symbol.
StatusLists ==
    UNION {{[k \in 1..Len(SymbolsTested) |-> IF k <= t THEN done[k] ELSE "absent"] :
                done \in [1..t -> {"success", "not_found"}]} :
            t \in 0..Len(SymbolsTested)}

\* The all_results arguments drawn: every pair of status lists for the two
\* Yahoo APIs; the IEX sandbox knows every symbol but the invalid one.
AllResultsInputs ==
    {[symbol \in ValidationSymbols |->
        LET k == CHOOSE i \in 1..Len(SymbolsTested) : SymbolsTested[i] = symbol
        IN  [yahoo_chart |-> chart[k], yahoo_quotesummary |-> quotes[k],
             iex_sandbox |-> IF symbol = "INVALID_SYMBOL" THEN "not_found" ELSE "success"]] :
        chart \in StatusLists, quotes \in StatusLists}

NoResults ==
    [symbol \in ValidationSymbols |->
        [yahoo_chart |-> "absent", yahoo_quotesummary |-> "absent", iex_sandbox |-> "absent"]]

\* A percentage as the fraction num / den, so that no rounding is added.
Percent(num, den) == [num |-> num, den |-> den]

\* (success_count / total_count * 100) if total_count > 0 else 0
success_rate(success_count, total_count) ==
    IF total_count > 0 THEN Percent(success_count * 100, total_count) ELSE Percent(0, 1)

StrictlyAbove(rate, threshold) == rate.num > threshold * rate.den

\* rate >= threshold
AtLeast(rate, threshold) == rate.num >= threshold * rate.den

\* One iteration of the loop over apis_tested: the entry of results_by_api.
ApiEntry(results, api_name) ==
    LET total_count ==
            Cardinality({symbol \in ValidationSymbols : results[symbol][api_name] # "absent"})
        success_count ==
            Cardinality({symbol \in ValidationSymbols : results[symbol][api_name] = "success"})
    IN  [success_count |-> success_count, total_count |-> total_count,
         success_rate_percent |-> success_rate(success_count, total_count)]

overall_status(yahoo_chart_success, yahoo_quotes_success) ==
    IF AtLeast(yahoo_chart_success, 80) /\ AtLeast(yahoo_quotes_success, 80) THEN "EXCELLENT"
    ELSE IF AtLeast(yahoo_chart_success, 60) \/ AtLeast(yahoo_quotes_success, 60) THEN "GOOD"
    ELSE "POOR"

ValidationReport(results) ==
    LET results_by_api == [api_name \in ApisTested |-> ApiEntry(results, api_name)]
        yahoo_chart_success == results_by_api["yahoo_chart"].success_rate_percent
        yahoo_quotes_success == results_by_api["yahoo_quotesummary"].success_rate_percent
    IN  [results_by_api |-> results_by_api,
         status |-> overall_status(yahoo_chart_success, yahoo_quotes_success),
         primary_apis_functional |->
             AtLeast(yahoo_chart_success, 80) /\ AtLeast(yahoo_quotes_success, 80)]

NoReport ==
    [results_by_api |-> [api_name \in ApisTested |->
                            [success_count |-> 0, total_count |-> 0,
                             success_rate_percent |-> Percent(0, 1)]],
     status |-> "none", primary_apis_functional |-> FALSE]

ValInit ==
    /\ v_pc = "idle"
    /\ all_results = NoResults
    /\ validation_report = NoReport

ValIdle ==
    /\ v_pc = "off"
    /\ all_results = NoResults
    /\ validation_report = NoReport

\* validate_api_responses(all_results) is called and returns its report.
ValidateApiResponses ==
    /\ v_pc = "idle"
    /\ \E results \in AllResultsInputs :
         /\ all_results' = results
         /\ validation_report' = ValidationReport(results)
    /\ v_pc' = "returned"
    /\ UNCHANGED notVal

(***************************************************************************)
(* validate_swift_integration.py: the rapid-request loop of                *)
(* test_swift_nasdaq_integration.                                          *)
(***************************************************************************)

\* for i in range(10)
RapidLoopRequests == 10

\* What requests.get does: it raises (status 0), or answers with a status.
RapidLoopResponses == {0, 200, 429, 500}

Raises(resp) == resp = 0

RapidInit ==
    /\ rl_pc = "loop"
    /\ rl_i = 0
    /\ rapid_requests = 0
    /\ failed_requests = 0
    /\ rl_rate_limited = 0
    /\ rl_printed = {}

RapidIdle ==
    /\ rl_pc = "off"
    /\ rl_i = 0
    /\ rapid_requests = 0
    /\ failed_requests = 0
    /\ rl_rate_limited = 0
    /\ rl_printed = {}

\* One iteration: the request, the count, the status test; a 429 prints and
\* breaks, an exception is counted by the bare except.
RapidLoopIteration ==
    /\ rl_pc = "loop"
    /\ rl_i < RapidLoopRequests
    /\ \E resp \in RapidLoopResponses :
         /\ rapid_requests' = IF Raises(resp) THEN rapid_requests ELSE rapid_requests + 1
         /\ failed_requests' =
              IF Raises(resp) \/ resp \notin {200, 429} THEN failed_requests + 1
              ELSE failed_requests
         /\ rl_rate_limited' = IF resp = 429 THEN rl_rate_limited + 1 ELSE rl_rate_limited
         /\ rl_printed' = IF resp = 429 THEN rl_printed \cup {"Rate limiting detected"}
                          ELSE rl_printed
         /\ rl_pc' = IF resp = 429 THEN "after" ELSE "loop"
    /\ rl_i' = rl_i + 1
    /\ UNCHANGED notRapid

\* range(10) is exhausted.
RapidLoopExhausted ==
    /\ rl_pc = "loop"
    /\ rl_i = RapidLoopRequests
    /\ rl_pc' = "after"
    /\ UNCHANGED <<rl_i, rapid_requests, failed_requests, rl_rate_limited, rl_printed>>
    /\ UNCHANGED notRapid

\* The statements after the loop.
RapidLoopReport ==
    /\ rl_pc = "after"
    /\ rl_printed' = IF failed_requests = 0
                     THEN rl_printed \cup {"No rate limiting detected in 10 rapid requests"}
                     ELSE rl_printed
    /\ rl_pc' = "done"
    /\ UNCHANGED <<rl_i, rapid_requests, failed_requests, rl_rate_limited>>
    /\ UNCHANGED notRapid

(***************************************************************************)
(* ios_app_simulation_test: run_all_tests, the test methods it calls that  *)
(* are not modelled above, and generate_comprehensive_report.  The clock   *)
(* stands still during a run.                                              *)
(***************************************************************************)

\* self.providers.keys(), in insertion order
ProviderKeys == <<"Yahoo Finance", "EODHD", "Finnhub">>

\* self.test_symbols[:3]
BasicSymbols == <<"AAPL", "GOOGL", "MSFT">>

\* The symbols of test_performance_concurrent, self.test_symbols[:5], cut
\* to a bounded number of them.
MaxConcurrentSymbols == 1

ConcurrentSymbols == SubSeq(<<"AAPL", "GOOGL", "MSFT", "TSLA", "AMZN">>, 1,
                            Min(5, MaxConcurrentSymbols))

\* The iterations of the load test and its total_requests: range(50) and
\* 50 in the source, a bounded number here.
MaxLoadRequests == 2

\* random.choice(self.test_symbols), over two of the symbols
LoadTestSymbols == {"AAPL", "GOOGL"}

\* A result of a test method as the report reads it: the key that holds
\* its entries ("providers", "scenarios", "tests" or "none") and, entry by
\* entry, the success (or handled_gracefully) flag; under "providers" one
\* list per provider.
TestResultOf(test_name, key, flags) == [test_name |-> test_name, key |-> key, flags |-> flags]

NoLoadTest ==
    [total_requests |-> 0, cache_hits |-> 0, cache_misses |-> 0, api_calls |-> 0,
     cache_hit_rate |-> Percent(0, 1), api_call_reduction |-> Percent(0, 1)]

NoReportYet == [total_tests |-> -1, successful_tests |-> -1, active_providers |-> -1]

NewLoadResults ==
    [cache_hits |-> 0, cache_misses |-> 0, api_calls |-> 0, total_requests |-> MaxLoadRequests]

RaStart ==
    /\ test_results = <<>>
    /\ basic_tests = <<>>
    /\ caching_tests = <<>>
    /\ core_data_records = 0
    /\ concurrent_results = <<>>
    /\ lt_i = 0
    /\ lt_symbol = "none"
    /\ load_results = NewLoadResults
    /\ lt_stored = {}
    /\ lt_succeeded = {}
    /\ load_test = NoLoadTest
    /\ report = NoReportYet

\* main is about to call run_all_tests, or a caller is about to call
\* generate_comprehensive_report on the new simulator.
RaInit ==
    /\ ra_caller \in {"main", "report_only"}
    /\ ra_pc = "idle"
    /\ RaStart

\* A caller is about to call test_performance_concurrent on the new simulator.
RaTest ==
    /\ ra_caller = "test"
    /\ ra_pc = "concurrent"
    /\ RaStart

RaIdle ==
    /\ ra_caller = "none"
    /\ ra_pc = "off"
    /\ RaStart

raRest == <<test_results, basic_tests, caching_tests, core_data_records, concurrent_results,
            lt_i, lt_symbol, load_results, lt_stored, lt_succeeded, load_test, report>>

\* main calls run_all_tests.
SimRunAllTests ==
    /\ ra_caller = "main"
    /\ ra_pc = "idle"
    /\ ra_pc' = "basic"
    /\ UNCHANGED <<ra_caller, raRest>>
    /\ UNCHANGED <<simVars, scnVars, cacheVars>>
    /\ UNCHANGED notRunAll

\* test_basic_functionality: one simulate_api_call of the loops over the
\* providers and the first three symbols.
BasicCall ==
    /\ ra_pc = "basic"
    /\ Len(basic_tests) < Len(ProviderKeys) * Len(BasicSymbols)
    /\ \E random_factor \in RandomFactors :
         LET provider_name == ProviderKeys[(Len(basic_tests) \div Len(BasicSymbols)) + 1]
             stats == provider_stats[provider_name]
             outcome == simulate_api_call(providers[provider_name], stats, random_factor)
         IN  /\ DrawFollowed(provider_name, random_factor)
             /\ n_unlucky' = UnluckyAfter(provider_name, random_factor)
             /\ provider_stats' =
                  [provider_stats EXCEPT ![provider_name] = StatsAfterCall(stats, outcome)]
             /\ basic_tests' = Append(basic_tests, outcome = "SUCCESS")
    /\ UNCHANGED <<providers, fo_pc, fo_symbol, fo_idx, fo_result, fo_calls, n_fetches>>
    /\ UNCHANGED <<ra_caller, ra_pc, test_results, caching_tests, core_data_records,
                   concurrent_results, lt_i, lt_symbol, load_results, lt_stored,
                   lt_succeeded, load_test, report>>
    /\ UNCHANGED <<scnVars, cacheVars>>
    /\ UNCHANGED notRunAll

\* The flags of one provider's "tests" list.
ProviderFlags(flags, k) ==
    SubSeq(flags, (k - 1) * Len(BasicSymbols) + 1, k * Len(BasicSymbols))

\* test_basic_functionality returns; run_all_tests appends its result and
\* turns to test_failover_mechanisms.
BasicReturn ==
    /\ ra_pc = "basic"
    /\ Len(basic_tests) = Len(ProviderKeys) * Len(BasicSymbols)
    /\ test_results' =
         Append(test_results,
                TestResultOf("Basic Functionality", "providers",
                             [k \in 1..Len(ProviderKeys) |-> ProviderFlags(basic_tests, k)]))
    /\ ra_pc' = "failover"
    /\ UNCHANGED <<ra_caller, basic_tests, caching_tests, core_data_records,
                   concurrent_results, lt_i, lt_symbol, load_results, lt_stored,
                   lt_succeeded, load_test, report>>
    /\ UNCHANGED <<simVars, scnVars, cacheVars>>
    /\ UNCHANGED notRunAll

\* test_failover_mechanisms, step by step.
RunFailover ==
    /\ ra_pc = "failover"
    /\ tf_pc # "returned"
    /\ (TfScenario1 \/ TfScenario2 \/ TfScenario3 \/ TfReturn)

\* run_all_tests appends the failover result and turns to
\* test_caching_mechanisms, whose first statement is the AAPL fetch.
CachingFirstFetch ==
    /\ ra_pc = "failover"
    /\ tf_pc = "returned"
    /\ test_results' =
         Append(test_results,
                TestResultOf("Failover Mechanisms", "scenarios",
                             <<[k \in 1..Len(tf_scenarios) |-> tf_scenarios[k].success]>>))
    /\ ra_pc' = "caching"
    /\ CallFetch("AAPL")
    /\ UNCHANGED <<providers, provider_stats>>
    /\ UNCHANGED <<ra_caller, basic_tests, caching_tests, core_data_records,
                   concurrent_results, lt_i, lt_symbol, load_results, lt_stored,
                   lt_succeeded, load_test, report>>
    /\ UNCHANGED <<scnVars, cacheVars>>
    /\ UNCHANGED notRunAll

CachingTest(name, success, data_source) ==
    [name |-> name, success |-> success, data_source |-> data_source]

\* The rest of test_caching_mechanisms, after its fetch: the two stores on
\* SUCCESS, the memory check, the clear, the disk check, the forced expiry
\* and the last disk check.
CachingTests ==
    /\ ra_pc = "caching"
    /\ fo_pc = "returned"
    /\ LET symbol == "AAPL"
           stored == fo_result.outcome = "SUCCESS"
           memory1 == IF stored
                      THEN Put(memory_cache, symbol,
                               CacheEntry(symbol, fo_result.data, now + expiry_minutes("memory")))
                      ELSE memory_cache
           disk1 == IF stored
                    THEN Put(disk_cache, symbol,
                             CacheEntry(symbol, fo_result.data, now + expiry_minutes("disk")))
                    ELSE disk_cache
           memory_hit == check_cache(memory1, symbol, now)
           disk_hit == check_cache(disk1, symbol, now)
           disk3 == IF symbol \in DOMAIN disk_hit.cache
                    THEN [disk_hit.cache EXCEPT ![symbol].expiry = now - 1]
                    ELSE disk_hit.cache
           expired == check_cache(disk3, symbol, now)
       IN  /\ caching_tests' =
                <<CachingTest("Cache Miss (First Fetch)", stored, fo_result.provider),
                  CachingTest("Memory Cache Hit", memory_hit.ret.kind # "None", "Memory Cache"),
                  CachingTest("Disk Cache Hit", disk_hit.ret.kind # "None", "Disk Cache"),
                  CachingTest("Cache Expiration", expired.ret.kind = "None", "Expired")>>
           /\ memory_cache' = <<>>
           /\ disk_cache' = expired.cache
    /\ ra_pc' = "core_data"
    /\ UNCHANGED <<now, cc_last, n_cache_ops, n_elapses>>
    /\ UNCHANGED <<ra_caller, test_results, basic_tests, core_data_records,
                   concurrent_results, lt_i, lt_symbol, load_results, lt_stored,
                   lt_succeeded, load_test, report>>
    /\ UNCHANGED <<simVars, scnVars>>
    /\ UNCHANGED notRunAll

\* run_all_tests appends the caching result; test_core_data_integration
\* stores 30 generated prices, then 30 for each of the first 5 symbols, and
\* returns three tests with success True, which run_all_tests appends.
TestCoreDataIntegration ==
    /\ ra_pc = "core_data"
    /\ core_data_records' = core_data_records + DefaultDays + 5 * DefaultDays
    /\ test_results' =
         test_results
         \o <<TestResultOf("Caching Mechanisms", "tests",
                           <<[k \in 1..Len(caching_tests) |-> caching_tests[k].success]>>),
              TestResultOf("Core Data Integration", "tests", <<<<TRUE, TRUE, TRUE>>>>)>>
    /\ ra_pc' = "error_handling"
    /\ UNCHANGED <<ra_caller, basic_tests, caching_tests, concurrent_results, lt_i,
                   lt_symbol, load_results, lt_stored, lt_succeeded, load_test, report>>
    /\ UNCHANGED <<simVars, scnVars, cacheVars>>
    /\ UNCHANGED notRunAll

\* test_error_handling, step by step.
RunErrorHandling ==
    /\ ra_pc = "error_handling"
    /\ te_pc # "returned"
    /\ (TeInvalidSymbol \/ TeRateLimit \/ TeTimeoutSetup \/ TeTimeoutCall \/ TeReturn)

\* run_all_tests appends the error handling result and calls
\* test_performance_concurrent.
ErrorHandlingReturn ==
    /\ ra_pc = "error_handling"
    /\ te_pc = "returned"
    /\ test_results' =
         Append(test_results,
                TestResultOf("Error Handling", "scenarios",
                             <<[k \in 1..Len(te_scenarios) |->
                                   te_scenarios[k].handled_gracefully]>>))
    /\ ra_pc' = "concurrent"
    /\ UNCHANGED <<ra_caller, basic_tests, caching_tests, core_data_records,
                   concurrent_results, lt_i, lt_symbol, load_results, lt_stored,
                   lt_succeeded, load_test, report>>
    /\ UNCHANGED <<simVars, scnVars, cacheVars>>
    /\ UNCHANGED notRunAll

\* test_performance_concurrent: the next fetch of the loop over symbols.
ConcurrentFetch ==
    /\ ra_pc = "concurrent"
    /\ Len(concurrent_results) < Len(ConcurrentSymbols)
    /\ CallFetch(ConcurrentSymbols[Len(concurrent_results) + 1])
    /\ ra_pc' = "concurrent_fetch"
    /\ UNCHANGED <<providers, provider_stats>>
    /\ UNCHANGED <<ra_caller, raRest>>
    /\ UNCHANGED <<scnVars, cacheVars>>
    /\ UNCHANGED notRunAll

\* The fetch is over: its entry is appended to concurrent_results.
ConcurrentFetched ==
    /\ ra_pc = "concurrent_fetch"
    /\ fo_pc = "returned"
    /\ concurrent_results' = Append(concurrent_results, fo_result.outcome = "SUCCESS")
    /\ ra_pc' = "concurrent"
    /\ UNCHANGED <<ra_caller, test_results, basic_tests, caching_tests, core_data_records,
                   lt_i, lt_symbol, load_results, lt_stored, lt_succeeded, load_test, report>>
    /\ UNCHANGED <<simVars, scnVars, cacheVars>>
    /\ UNCHANGED notRunAll

\* The concurrent test is recorded and load_results set up.
LoadTestStart ==
    /\ ra_pc = "concurrent"
    /\ Len(concurrent_results) = Len(ConcurrentSymbols)
    /\ load_results' = NewLoadResults
    /\ ra_pc' = "load"
    /\ UNCHANGED <<ra_caller, test_results, basic_tests, caching_tests, core_data_records,
                   concurrent_results, lt_i, lt_symbol, lt_stored, lt_succeeded, load_test,
                   report>>
    /\ UNCHANGED <<simVars, scnVars, cacheVars>>
    /\ UNCHANGED notRunAll

LoadHit(counters) == [counters EXCEPT !.cache_hits = @ + 1]

MissWithoutApiCall(counters) == [counters EXCEPT !.cache_misses = @ + 1]

LoadMiss(counters) == [counters EXCEPT !.cache_misses = @ + 1, !.api_calls = @ + 1]

\* if outcome == TestOutcome.SUCCESS: self.store_in_cache(symbol, data, "memory")
StoresOutcome(outcome) == outcome = "SUCCESS"

\* One iteration of the load test, up to the end of a hit or to the fetch
\* of a miss: the cache check ("if cached_data" is false for None and for
\* an empty list) and the counters.
LoadIteration ==
    /\ ra_pc = "load"
    /\ lt_i < load_results.total_requests
    /\ \E symbol \in LoadTestSymbols :
         LET checked == check_cache(memory_cache, symbol, now)
         IN  /\ lt_symbol' = symbol
             /\ memory_cache' = checked.cache
             /\ IF checked.ret.kind = "data" /\ checked.ret.data # <<>>
                THEN /\ load_results' = LoadHit(load_results)
                     /\ lt_i' = lt_i + 1
                     /\ UNCHANGED <<ra_pc, simVars>>
                ELSE /\ load_results' = LoadMiss(load_results)
                     /\ CallFetch(symbol)
                     /\ ra_pc' = "load_fetch"
                     /\ UNCHANGED <<lt_i, providers, provider_stats>>
    /\ UNCHANGED <<disk_cache, now, cc_last, n_cache_ops, n_elapses>>
    /\ UNCHANGED <<ra_caller, test_results, basic_tests, caching_tests, core_data_records,
                   concurrent_results, lt_stored, lt_succeeded, load_test, report>>
    /\ UNCHANGED scnVars
    /\ UNCHANGED notRunAll

\* The fetch of a miss is over: the data is stored on SUCCESS and the
\* iteration ends.
LoadFetched ==
    /\ ra_pc = "load_fetch"
    /\ fo_pc = "returned"
    /\ IF StoresOutcome(fo_result.outcome)
       THEN /\ memory_cache' =
                 Put(memory_cache, lt_symbol,
                     CacheEntry(lt_symbol, fo_result.data, now + expiry_minutes("memory")))
            /\ lt_stored' = lt_stored \cup {lt_symbol}
       ELSE UNCHANGED <<memory_cache, lt_stored>>
    /\ lt_succeeded' = IF fo_result.outcome = "SUCCESS" THEN lt_succeeded \cup {lt_symbol}
                       ELSE lt_succeeded
    /\ lt_i' = lt_i + 1
    /\ ra_pc' = "load"
    /\ UNCHANGED <<disk_cache, now, cc_last, n_cache_ops, n_elapses>>
    /\ UNCHANGED <<ra_caller, test_results, basic_tests, caching_tests, core_data_records,
                   concurrent_results, lt_symbol, load_results, load_test, report>>
    /\ UNCHANGED <<simVars, scnVars>>
    /\ UNCHANGED notRunAll

\* results["load_test"]
LoadTest(counters) ==
    [total_requests |-> counters.total_requests, cache_hits |-> counters.cache_hits,
     cache_misses |-> counters.cache_misses, api_calls |-> counters.api_calls,
     cache_hit_rate |-> Percent(counters.cache_hits * 100, counters.total_requests),
     api_call_reduction |->
         Percent((counters.total_requests - counters.api_calls) * 100,
                 counters.total_requests)]

\* The loop is over: test_performance_concurrent returns its results, which
\* hold none of the keys "providers", "scenarios" and "tests"; run_all_tests
\* appends them and returns.
PerformanceReturn ==
    /\ ra_pc = "load"
    /\ lt_i = load_results.total_requests
    /\ load_test' = LoadTest(load_results)
    /\ test_results' = Append(test_results, TestResultOf("Performance Tests", "none", <<>>))
    /\ ra_pc' = "returned"
    /\ UNCHANGED <<ra_caller, basic_tests, caching_tests, core_data_records,
                   concurrent_results, lt_i, lt_symbol, load_results, lt_stored,
                   lt_succeeded>>
    /\ UNCHANGED report
    /\ UNCHANGED <<simVars, scnVars, cacheVars>>
    /\ UNCHANGED notRunAll

RECURSIVE SumOfLengths(_)
SumOfLengths(lists) ==
    IF lists = <<>> THEN 0 ELSE Len(Head(lists)) + SumOfLengths(Tail(lists))

RECURSIVE SumOfFlags(_)
SumOfFlags(lists) ==
    IF lists = <<>> THEN 0
    ELSE Cardinality({k \in 1..Len(Head(lists)) : Head(lists)[k]}) + SumOfFlags(Tail(lists))

CountsFirstListOnly(test_result) ==
    IF test_result.key = "none" THEN 0 ELSE Len(test_result.flags[1])

\* What a result adds to total_tests: the if / elif chain of the report.
TestsOf(test_result) ==
    IF test_result.key = "providers" THEN SumOfLengths(test_result.flags)
    ELSE IF test_result.key = "scenarios" THEN Len(test_result.flags[1])
    ELSE IF test_result.key = "tests" THEN Len(test_result.flags[1])
    ELSE 0

\* What it adds to successful_tests.
PassedOf(test_result) ==
    IF test_result.key \in {"providers", "scenarios", "tests"}
    THEN SumOfFlags(test_result.flags)
    ELSE 0

RECURSIVE TotalTests(_)
TotalTests(all) ==
    IF all = <<>> THEN 0 ELSE TestsOf(Head(all)) + TotalTests(Tail(all))

RECURSIVE SuccessfulTests(_)
SuccessfulTests(all) ==
    IF all = <<>> THEN 0 ELSE PassedOf(Head(all)) + SuccessfulTests(Tail(all))

ProvidersListed(stats) == Cardinality(DOMAIN stats)

\* len([s for s in self.provider_stats.values() if s.total_requests > 0])
ProvidersWithRequests(stats) ==
    Cardinality({name \in DOMAIN stats : stats[name].total_requests > 0})

\* generate_comprehensive_report(all_results), called by main after
\* run_all_tests or by a caller on the new simulator with no results: the
\* totals, then the average response time, whose division raises
\* ZeroDivisionError when no provider has a request.
GenerateReport ==
    /\ \/ ra_caller = "main" /\ ra_pc = "returned"
       \/ ra_caller = "report_only" /\ ra_pc = "idle"
    /\ report' = [total_tests |-> TotalTests(test_results),
                  successful_tests |-> SuccessfulTests(test_results),
                  active_providers |-> ProvidersWithRequests(provider_stats)]
    /\ ra_pc' = IF ProvidersWithRequests(provider_stats) = 0 THEN "raised" ELSE "reported"
    /\ UNCHANGED <<ra_caller, test_results, basic_tests, caching_tests, core_data_records,
                   concurrent_results, lt_i, lt_symbol, load_results, lt_stored,
                   lt_succeeded, load_test>>
    /\ UNCHANGED <<simVars, scnVars, cacheVars>>
    /\ UNCHANGED notRunAll

(***************************************************************************)
(* Specifications                                                          *)
(***************************************************************************)
NextAsync ==
    \/ \E i \in DOMAIN a_symbols : TaskAcquire(i)
    \/ \E i \in DOMAIN a_symbols : TaskWake(i)
    \/ \E i \in DOMAIN a_symbols : TaskComplete(i)
    \/ GatherReturn

InitAsync == FetchIdle /\ AsyncInit /\ PoolIdle /\ AVIdle /\ NqIdle /\ SimIdle /\ ScnIdle /\ CacheIdle /\ GenIdle /\ RunIdle /\ DirectIdle /\ YahooIdle /\ ErrIdle /\ ValIdle /\ RapidIdle /\ RaIdle

SpecAsync == InitAsync /\ [][NextAsync]_vars

\* The event loop runs every ready task and every request ends (answer,
\* error or the 10 s timeout).
FairSpecAsync ==
    /\ SpecAsync
    /\ \A i \in 1..(MaxSymbols + 1) :
         /\ WF_vars(i \in DOMAIN a_symbols /\ TaskAcquire(i))
         /\ WF_vars(i \in DOMAIN a_symbols /\ TaskWake(i))
         /\ WF_vars(i \in DOMAIN a_symbols /\ TaskComplete(i))
    /\ WF_vars(GatherReturn)

NextFetch == CallSync \/ CallAsync

InitFetch == FetchInit /\ AsyncIdle /\ PoolIdle /\ AVIdle /\ NqIdle /\ SimIdle /\ ScnIdle /\ CacheIdle /\ GenIdle /\ RunIdle /\ DirectIdle /\ YahooIdle /\ ErrIdle /\ ValIdle /\ RapidIdle /\ RaIdle

SpecFetch == InitFetch /\ [][NextFetch]_vars

NextPool ==
    \/ Submit
    \/ WorkerTake
    \/ \E i \in DOMAIN future_state : WorkerFinish(i)
    \/ \E i \in DOMAIN future_state : Collect(i)
    \/ CollectDone
    \/ BuildSummary

InitPool == FetchIdle /\ AsyncIdle /\ PoolInit /\ AVIdle /\ NqIdle /\ SimIdle /\ ScnIdle /\ CacheIdle /\ GenIdle /\ RunIdle /\ DirectIdle /\ YahooIdle /\ ErrIdle /\ ValIdle /\ RapidIdle /\ RaIdle

SpecPool == InitPool /\ [][NextPool]_vars

NextAV ==
    \/ QuoteSleep
    \/ QuoteRequest
    \/ QuoteLoopEnd
    \/ DividendCheck
    \/ DividendSleep
    \/ DividendRequest
    \/ DividendLoopEnd
    \/ AVReturn

InitAV == FetchIdle /\ AsyncIdle /\ PoolIdle /\ AVInit /\ NqIdle /\ SimIdle /\ ScnIdle /\ CacheIdle /\ GenIdle /\ RunIdle /\ DirectIdle /\ YahooIdle /\ ErrIdle /\ ValIdle /\ RapidIdle /\ RaIdle

SpecAV == InitAV /\ [][NextAV]_vars

NextNasdaq ==
    \/ NqQuote
    \/ NqDividend
    \/ NqStats
    \/ NqSamples
    \/ NqReport

InitNasdaq == FetchIdle /\ AsyncIdle /\ PoolIdle /\ AVIdle /\ NqInit /\ SimIdle /\ ScnIdle /\ CacheIdle /\ GenIdle /\ RunIdle /\ DirectIdle /\ YahooIdle /\ ErrIdle /\ ValIdle /\ RapidIdle /\ RaIdle

SpecNasdaq == InitNasdaq /\ [][NextNasdaq]_vars

NextFailover ==
    \/ \E symbol \in SimSymbols : FetchStart(symbol)
    \/ FetchTryProvider
    \/ FetchAllFailed
    \/ ForceRateLimitScenario
    \/ ForceRateLimitErrorTest

InitFailover == FetchIdle /\ AsyncIdle /\ PoolIdle /\ AVIdle /\ NqIdle /\ SimInit /\ ScnIdle /\ CacheIdle /\ GenIdle /\ RunIdle /\ DirectIdle /\ YahooIdle /\ ErrIdle /\ ValIdle /\ RapidIdle /\ RaIdle

SpecFailover == InitFailover /\ [][NextFailover]_vars

NextScenarios ==
    \/ TfScenario1
    \/ TfScenario2
    \/ TfScenario3
    \/ TfReturn
    \/ FetchTryProvider
    \/ FetchAllFailed
    \/ TeInvalidSymbol
    \/ TeRateLimit
    \/ TeTimeoutSetup
    \/ TeTimeoutCall
    \/ TeReturn

InitScenarios == FetchIdle /\ AsyncIdle /\ PoolIdle /\ AVIdle /\ NqIdle /\ SimInit /\ ScnInit /\ CacheIdle /\ GenIdle /\ RunIdle /\ DirectIdle /\ YahooIdle /\ ErrIdle /\ ValIdle /\ RapidIdle /\ RaIdle

SpecScenarios == InitScenarios /\ [][NextScenarios]_vars

NextCache ==
    \/ \E symbol \in CacheSymbols, cache_type \in CacheTypes : CheckCache(symbol, cache_type)
    \/ \E symbol \in CacheSymbols, cache_type \in CacheTypes :
         \E data \in CacheData(symbol) : StoreInCache(symbol, data, cache_type)
    \/ ClearMemoryCache
    \/ \E symbol \in CacheSymbols : ForceExpiry(symbol)
    \/ \E minutes \in Elapses : Elapse(minutes)

InitCache == FetchIdle /\ AsyncIdle /\ PoolIdle /\ AVIdle /\ NqIdle /\ SimIdle /\ ScnIdle /\ CacheInit /\ GenIdle /\ RunIdle /\ DirectIdle /\ YahooIdle /\ ErrIdle /\ ValIdle /\ RapidIdle /\ RaIdle

SpecCache == InitCache /\ [][NextCache]_vars

NextGenerate == GenDay \/ GenReturn

InitGenerate == FetchIdle /\ AsyncIdle /\ PoolIdle /\ AVIdle /\ NqIdle /\ SimIdle /\ ScnIdle /\ CacheIdle /\ GenInit /\ RunIdle /\ DirectIdle /\ YahooIdle /\ ErrIdle /\ ValIdle /\ RapidIdle /\ RaIdle

SpecGenerate == InitGenerate /\ [][NextGenerate]_vars

NextRunner == RunSuite \/ RunAllTestsReturn \/ MainReport

InitRunner == FetchIdle /\ AsyncIdle /\ PoolIdle /\ AVIdle /\ NqIdle /\ SimIdle /\ ScnIdle /\ CacheIdle /\ GenIdle /\ RunInit /\ DirectIdle /\ YahooIdle /\ ErrIdle /\ ValIdle /\ RapidIdle /\ RaIdle

SpecRunner == InitRunner /\ [][NextRunner]_vars

NextKeyed ==
    \/ \E fn \in {"eodhd", "finnhub"} : CallKeyed(fn)
    \/ EodhdSymbol
    \/ FinnhubSymbol
    \/ KeyedReturn

InitKeyed == FetchIdle /\ AsyncIdle /\ PoolIdle /\ AVIdle /\ NqIdle /\ SimIdle /\ ScnIdle /\ CacheIdle /\ GenIdle /\ RunIdle /\ DirectInit /\ YahooIdle /\ ErrIdle /\ ValIdle /\ RapidIdle /\ RaIdle

SpecKeyed == InitKeyed /\ [][NextKeyed]_vars

NextYahoo ==
    \/ \E symbol \in YahooSymbols : YahooRequest(symbol)
    \/ YahooAnswer

InitYahoo == FetchIdle /\ AsyncIdle /\ PoolIdle /\ AVIdle /\ NqIdle /\ SimIdle /\ ScnIdle /\ CacheIdle /\ GenIdle /\ RunIdle /\ DirectIdle /\ YahooInit /\ ErrIdle /\ ValIdle /\ RapidIdle /\ RaIdle

SpecYahoo == InitYahoo /\ [][NextYahoo]_vars

NextErrorScenarios == InvalidSymbolTest \/ RapidRequestDone \/ RateLimitingTest

InitErrorScenarios == FetchIdle /\ AsyncIdle /\ PoolIdle /\ AVIdle /\ NqIdle /\ SimIdle /\ ScnIdle /\ CacheIdle /\ GenIdle /\ RunIdle /\ DirectIdle /\ YahooIdle /\ ErrInit /\ ValIdle /\ RapidIdle /\ RaIdle

SpecErrorScenarios == InitErrorScenarios /\ [][NextErrorScenarios]_vars

NextValidate == ValidateApiResponses

InitValidate == FetchIdle /\ AsyncIdle /\ PoolIdle /\ AVIdle /\ NqIdle /\ SimIdle /\ ScnIdle /\ CacheIdle /\ GenIdle /\ RunIdle /\ DirectIdle /\ YahooIdle /\ ErrIdle /\ ValInit /\ RapidIdle /\ RaIdle

SpecValidate == InitValidate /\ [][NextValidate]_vars

NextRapid == RapidLoopIteration \/ RapidLoopExhausted \/ RapidLoopReport

InitRapid == FetchIdle /\ AsyncIdle /\ PoolIdle /\ AVIdle /\ NqIdle /\ SimIdle /\ ScnIdle /\ CacheIdle /\ GenIdle /\ RunIdle /\ DirectIdle /\ YahooIdle /\ ErrIdle /\ ValIdle /\ RapidInit /\ RaIdle

SpecRapid == InitRapid /\ [][NextRapid]_vars

\* fetch_with_failover calls only, on the freshly constructed simulator.
NextFetchOnly ==
    \/ \E symbol \in SimSymbols : FetchStart(symbol)
    \/ FetchTryProvider
    \/ FetchAllFailed

InitFetchOnly == FetchIdle /\ AsyncIdle /\ PoolIdle /\ AVIdle /\ NqIdle /\ SimInit /\ ScnIdle /\ CacheIdle /\ GenIdle /\ RunIdle /\ DirectIdle /\ YahooIdle /\ ErrIdle /\ ValIdle /\ RapidIdle /\ RaIdle

SpecFetchOnly == InitFetchOnly /\ [][NextFetchOnly]_vars

\* main: run_all_tests, then the report; or the report on the new simulator.
NextRunAll ==
    \/ SimRunAllTests
    \/ BasicCall
    \/ BasicReturn
    \/ RunFailover
    \/ FetchTryProvider
    \/ FetchAllFailed
    \/ CachingFirstFetch
    \/ CachingTests
    \/ TestCoreDataIntegration
    \/ RunErrorHandling
    \/ ErrorHandlingReturn
    \/ ConcurrentFetch
    \/ ConcurrentFetched
    \/ LoadTestStart
    \/ LoadIteration
    \/ LoadFetched
    \/ PerformanceReturn
    \/ GenerateReport

InitRunAll == FetchIdle /\ AsyncIdle /\ PoolIdle /\ AVIdle /\ NqIdle /\ SimInit /\ ScnInit /\ CacheInit /\ GenIdle /\ RunIdle /\ DirectIdle /\ YahooIdle /\ ErrIdle /\ ValIdle /\ RapidIdle /\ RaInit

SpecRunAll == InitRunAll /\ [][NextRunAll]_vars

\* test_performance_concurrent called on the new simulator.
NextPerformance ==
    \/ ConcurrentFetch
    \/ ConcurrentFetched
    \/ LoadTestStart
    \/ LoadIteration
    \/ LoadFetched
    \/ PerformanceReturn
    \/ FetchTryProvider
    \/ FetchAllFailed

InitPerformance == FetchIdle /\ AsyncIdle /\ PoolIdle /\ AVIdle /\ NqIdle /\ SimInit /\ ScnIdle /\ CacheInit /\ GenIdle /\ RunIdle /\ DirectIdle /\ YahooIdle /\ ErrIdle /\ ValIdle /\ RapidIdle /\ RaTest

SpecPerformance == InitPerformance /\ [][NextPerformance]_vars

\* C4: fetch_stock_quote_sync and fetch_stock_quote_async never propagate an
\* exception: whatever the request outcome, the call returns one record that
\* carries the symbol; the record has success False and an error string unless
\* the HTTP status is 200, rCode is 200 and the price parses, and it has
\* success True only in that case.
C4_FetchNeverRaises ==
    fq_fn # "none" =>
        LET good == /\ fq_resp.net = "ok"
                    /\ fq_resp.status = 200
                    /\ fq_resp.body.json = "dict"
                    /\ fq_resp.body.statusField = "dict"
                    /\ fq_resp.body.rCode = 200
                    /\ ParsePrice(fq_resp.body.price).kind = "return"
        IN  /\ fq_out.kind = "return"
            /\ fq_out.value.symbol = fq_symbol
            /\ fq_out.value.success <=> good
            /\ ~fq_out.value.success => fq_out.value.error.tag \in {"HTTP", "str(e)"}
            /\ fq_out.value.success => fq_out.value.error = NoError

\* C4 witness: a call whose price field did not parse has returned a failure record.
C4_Witness ==
    /\ fq_fn = "async"
    /\ fq_resp.net = "ok" /\ fq_resp.status = 200
    /\ fq_resp.body.json = "dict" /\ fq_resp.body.statusField = "dict"
    /\ fq_resp.body.rCode = 200
    /\ fq_resp.body.price = [kind |-> "str", s |-> <<"N">>]
    /\ fq_out.kind = "return" /\ ~fq_out.value.success

\* C1: in run_async_test, at every moment the number of
\* fetch_stock_quote_async calls that have started and not yet returned is at
\* most concurrent_limit.
C1_InFlightAtMostLimit == Cardinality(InFlight) <= concurrent_limit

\* C1 witness: the limit is reached while another task is held back.
C1_Witness ==
    /\ Cardinality(InFlight) = concurrent_limit
    /\ \E i \in DOMAIN a_symbols : task_pc[i] = "waiting"

\* C3: run_async_test terminates without deadlock: under fair scheduling and
\* requests that all end, the run returns, with the semaphore fully released
\* and one result dict per input symbol.
C3_AsyncTerminates ==
    <>(/\ a_pc = "returned"
       /\ sem_value = concurrent_limit
       /\ sem_waiters = <<>>
       /\ a_summary.total_requests = Len(a_symbols)
       /\ \A i \in DOMAIN a_symbols : a_summary.results[i].symbol = a_symbols[i])

\* C3 witness: a run with more symbols than the limit has returned, a failed
\* request among them.
C3_Witness ==
    /\ a_pc = "returned"
    /\ Len(a_symbols) > concurrent_limit
    /\ a_summary.failed_requests > 0
    /\ a_summary.total_requests = Len(a_symbols)

\* C2: run_concurrent_test collects exactly one result record for each
\* submitted symbol, whatever the number of workers and the order in which
\* they finish: no result is duplicated while collecting, and in the returned
\* summary total_requests = len(symbols), successful_requests +
\* failed_requests = total_requests, every future's record being present.
C2_OneResultPerSymbol ==
    /\ \A j, k \in 1..Len(p_results) : j # k => p_results[j][1] # p_results[k][1]
    /\ \A k \in 1..Len(p_results) :
         /\ p_results[k][1] \in DOMAIN future_result
         /\ future_result[p_results[k][1]] = Returned(p_results[k][2])
         /\ p_results[k][2].symbol = p_symbols[p_results[k][1]]
    /\ p_pc = "returned" =>
         /\ p_summary.total_requests = Len(p_symbols)
         /\ p_summary.successful_requests + p_summary.failed_requests
              = p_summary.total_requests
         /\ {p_results[k][1] : k \in 1..Len(p_results)} = DOMAIN p_symbols

\* C2 witness: a run with more symbols than workers has returned its summary,
\* and the futures did not finish in submission order.
C2_Witness ==
    /\ p_pc = "returned"
    /\ Len(p_symbols) > max_workers
    /\ \E j, k \in 1..Len(p_results) : j < k /\ p_results[j][1] > p_results[k][1]

\* C5: run_comprehensive_test logs and continues past any single symbol:
\* whatever test_global_quote and test_dividends return (failures, and
\* successes whose Global Quote has no price field), the result is recorded
\* under the symbol, the loop goes on, and the method does not raise.
C5_LogsAndContinues ==
    /\ av_pc # "raised"
    /\ \A k \in 1..Len(req_log) :
         LET symbol == test_symbols[req_log[k][2]]
         IN  IF req_log[k][1] = "quote" THEN symbol \in DOMAIN quote_tests
             ELSE symbol \in DOMAIN dividend_tests

\* C7: on a fresh tester request_count never exceeds max_requests, equals
\* the number of HTTP requests issued so far, no request is issued once it
\* has reached max_requests, and the reported remaining is never negative.
C7_RequestCountExact ==
    /\ request_count <= max_requests
    /\ request_count = issued
    /\ av_pc \in {"quote_request", "dividend_request"} => request_count < max_requests
    /\ rate_limiting.built => /\ rate_limiting.remaining >= 0
                              /\ rate_limiting.remaining = max_requests - request_count

\* C8: on a fresh tester every HTTP request except the very first is
\* immediately preceded by a rate-limit sleep, and no request is repeated:
\* each list position is requested at most once per endpoint.
C8_SleepBetweenRequests ==
    /\ [][(issued' = issued + 1 /\ issued > 0) => slept]_vars
    /\ [](\A j, k \in 1..Len(req_log) : j # k => req_log[j] # req_log[k])

\* C8 witness: a dividend request has followed the quote requests, one of
\* which failed.
C8_Witness ==
    /\ \E k \in 1..Len(req_log) : req_log[k][1] = "dividend"
    /\ \E sym \in DOMAIN quote_tests : ~quote_tests[sym].success
    /\ issued >= 3

\* C6: nasdaq_api_test.run_comprehensive_test logs and continues past failed
\* symbols: for every combination of results over the 23 symbols of the two
\* passes (exactly one success and a success whose price is None included) it
\* reaches the statistics and the final assessment and builds the report
\* without raising.
C6_ReachesReport == nq_pc # "raised"

PriorityOrder == <<"Yahoo Finance", "EODHD", "Finnhub">>

\* C9: fetch_with_failover tries the providers strictly in ascending priority
\* (Yahoo Finance, EODHD, Finnhub), each at most once per fetch; it stops at
\* the first SUCCESS and returns that provider's name and data; a provider is
\* called only after every provider before it returned a non-SUCCESS outcome
\* in the same fetch.
C9_FailoverOrder ==
    /\ Len(fo_calls) <= Len(PriorityOrder)
    /\ \A k \in 1..Len(fo_calls) :
         /\ fo_calls[k].provider = PriorityOrder[k]
         /\ k < Len(fo_calls) => fo_calls[k].outcome # "SUCCESS"
    /\ (fo_calls # <<>> /\ fo_calls[Len(fo_calls)].outcome = "SUCCESS") =>
         /\ fo_pc = "returned"
         /\ fo_result.outcome = "SUCCESS"
         /\ fo_result.provider = fo_calls[Len(fo_calls)].provider
         /\ fo_result.data = fo_calls[Len(fo_calls)].data
         /\ \A i \in 1..Len(fo_result.data) :
              /\ fo_result.data[i].data_source = fo_result.provider
              /\ fo_result.data[i].symbol = fo_symbol

\* C9 witness: a fetch was served by Finnhub after Yahoo Finance and EODHD
\* both returned a non-SUCCESS outcome.
C9_Witness ==
    /\ fo_pc = "returned"
    /\ fo_result.outcome = "SUCCESS"
    /\ fo_result.provider = "Finnhub"
    /\ Len(fo_calls) = 3

\* C10: when a provider's simulated call returns RATE_LIMITED, the fetch
\* waits and does not try the other (lower-priority) providers for that
\* request.
C10_RateLimitedStopsFailover ==
    \A k \in 1..Len(fo_calls) :
        fo_calls[k].outcome = "RATE_LIMITED" => k = Len(fo_calls)

\* C11: in scenario 3 of test_failover_mechanisms, after total_requests of
\* Yahoo Finance has been forced, the Yahoo Finance call of the MSFT fetch
\* returns RATE_LIMITED, as the recorded rate_limited: True says.
C11_ScenarioThreeRateLimited ==
    (tf_pc \in {"s3", "returned"} /\ fo_calls # <<>>) =>
        /\ fo_calls[1].provider = "Yahoo Finance"
        /\ fo_calls[1].outcome = "RATE_LIMITED"

\* C12: in the Rate Limiting scenario of test_error_handling, with
\* total_requests of Yahoo Finance set to its rate_limit_threshold,
\* simulate_api_call returns RATE_LIMITED for every random draw, adds one to
\* rate_limit_hits and leaves total_requests at the threshold, so the
\* scenario's handled_gracefully is always True.
C12_RateLimitScenario ==
    /\ [][(te_pc = "rate_limit" /\ te_pc' = "timeout") =>
            LET before == provider_stats["Yahoo Finance"]
                after  == provider_stats'["Yahoo Finance"]
                forced == [before EXCEPT
                              !.total_requests = providers["Yahoo Finance"].rate_limit_threshold]
            IN  /\ PossibleOutcomes(providers["Yahoo Finance"], forced) = {"RATE_LIMITED"}
                /\ after.rate_limit_hits = before.rate_limit_hits + 1
                /\ after.total_requests = providers["Yahoo Finance"].rate_limit_threshold
                /\ after.successful_requests = before.successful_requests
                /\ after.failed_requests = before.failed_requests
                /\ te_scenarios'[Len(te_scenarios')] =
                     ErrorScenario("Rate Limiting", TRUE, "RATE_LIMITED")]_vars
    /\ [](\A k \in 1..Len(te_scenarios) :
            te_scenarios[k].name = "Rate Limiting" => te_scenarios[k].handled_gracefully)

\* C12 witness: the Rate Limiting scenario has been recorded with outcome
\* RATE_LIMITED after an Invalid Symbol call that was not rate limited.
C12_Witness ==
    /\ Len(te_scenarios) >= 2
    /\ te_scenarios[1].outcome = "FAILURE"
    /\ te_scenarios[2].outcome = "RATE_LIMITED"
    /\ provider_stats["Yahoo Finance"].rate_limit_hits >= 1
    /\ provider_stats["Yahoo Finance"].total_requests = 60

\* C14: in scenario 2 of test_failover_mechanisms, with the success rate of
\* Yahoo Finance lowered to 0.1, the Yahoo Finance call of the GOOGL fetch
\* fails and the fetch is served by another provider, so failover_occurred
\* is True.
C14_PrimaryFailsInScenarioTwo ==
    /\ (tf_pc = "s2" /\ fo_calls # <<>>) => fo_calls[1].outcome # "SUCCESS"
    /\ \A k \in 1..Len(tf_scenarios) :
         tf_scenarios[k].name = "Primary Provider Failure" =>
             /\ tf_scenarios[k].flag = TRUE
             /\ tf_scenarios[k].provider_used \in {"EODHD", "Finnhub"}

\* C15: in the Network Timeout scenario of test_error_handling, with the
\* success rate of Finnhub set to 0.0, TIMEOUT is among the outcomes the
\* simulate_api_call calls of the scenario can return.
C15_TimeoutReachable ==
    te_pc = "timeout_loop" =>
        "TIMEOUT" \in PossibleOutcomes(providers["Finnhub"], provider_stats["Finnhub"])

\* C16: when test_failover_mechanisms returns and when test_error_handling
\* returns, self.providers (every base_success_rate included) equals what it
\* was when the method was called.
C16_ProvidersRestored ==
    /\ [][(tf_pc # "returned" /\ tf_pc' = "returned") => providers' = tf_before]_vars
    /\ [][(te_pc # "returned" /\ te_pc' = "returned") => providers' = te_before]_vars

\* C16 witness: both methods have returned, after each lowered a success rate.
C16_Witness ==
    /\ tf_pc = "returned" /\ Len(tf_scenarios) = 3
    /\ te_pc = "returned" /\ Len(te_scenarios) = 3
    /\ original_success_rate = 950
    /\ original_rate = 850
    /\ providers = InitialProviders

\* C13: check_cache returns the stored data of a symbol only while the
\* current time is before the entry's expiry; the first check at or after
\* expiry deletes the entry and returns None, and later checks of that cache
\* return None until store_in_cache is called again for the symbol (a symbol
\* enters a cache only by a store on that cache); each hit adds one to the
\* entry's hit_count; a check or a store on one cache never changes the other.
C13_CacheExpiry ==
    [][n_cache_ops' = n_cache_ops + 1 =>
         LET symbol == cc_last'.symbol
             before == IF cc_last'.cache_type = "memory" THEN memory_cache ELSE disk_cache
             after  == IF cc_last'.cache_type = "memory" THEN memory_cache' ELSE disk_cache'
             hit    == symbol \in DOMAIN before /\ now < before[symbol].expiry
         IN  /\ cc_last'.cache_type = "memory" => disk_cache' = disk_cache
             /\ cc_last'.cache_type = "disk" => memory_cache' = memory_cache
             /\ \A other \in CacheSymbols \ {symbol} :
                  /\ other \in DOMAIN after <=> other \in DOMAIN before
                  /\ other \in DOMAIN before => after[other] = before[other]
             /\ cc_last'.op = "check" =>
                  /\ cc_last'.ret.kind = "data" <=> hit
                  /\ hit => /\ cc_last'.ret.data = before[symbol].data
                            /\ symbol \in DOMAIN after
                            /\ after[symbol].hit_count = before[symbol].hit_count + 1
                            /\ after[symbol].data = before[symbol].data
                            /\ after[symbol].expiry = before[symbol].expiry
                  /\ ~hit => /\ cc_last'.ret.kind = "None"
                             /\ symbol \notin DOMAIN after
             /\ cc_last'.op = "store" =>
                  /\ symbol \in DOMAIN after
                  /\ after[symbol].hit_count = 0
                  /\ now < after[symbol].expiry
             /\ \A s \in CacheSymbols :
                  (s \notin DOMAIN before /\ s \in DOMAIN after) =>
                      cc_last'.op = "store" /\ s = symbol]_vars

\* C13 witness: a check of the disk cache at the expiry time of the entry
\* (60 minutes after the store) deleted it and returned None, the memory
\* cache keeping its own entry of the symbol.
C13_Witness ==
    /\ cc_last.op = "check" /\ cc_last.cache_type = "disk" /\ cc_last.symbol = "AAPL"
    /\ cc_last.expired /\ cc_last.ret.kind = "None"
    /\ "AAPL" \notin DOMAIN disk_cache
    /\ "AAPL" \in DOMAIN memory_cache
    /\ now = 60

\* C17: every HistoricalPrice generate_historical_data produces for a
\* 30-day request satisfies is_valid after the rounding to two decimals:
\* the four prices are positive, low <= open <= high and low <= close <= high,
\* for every random draw.
C17_GeneratedDataValid == g_len > 0 => is_valid(g_price)

\* C17 witness: the 30 days are generated, the last one after thirty falls
\* of 5%, with low, open, close and high all different.
C17_Witness ==
    /\ g_pc = "returned"
    /\ g_len = 30
    /\ base_price < 11000
    /\ g_price.low_price < g_price.open_price
    /\ g_price.open_price < g_price.close_price
    /\ g_price.close_price < g_price.high_price

\* C18: in run_all_tests a suite function that raises is recorded as a
\* suite with exactly one FAILED result (failed_count 1, passed_count 0) and
\* the suites after it still run: the suites are recorded in the fixed order
\* of suite_configs, a suite that did not raise holds the results its
\* function returned, and the returned mapping has all six suites.
C18_SuiteErrorRecorded ==
    /\ Len(test_suites) = Len(r_outcomes)
    /\ Len(test_suites) <= Len(SuiteNames)
    /\ \A k \in 1..Len(test_suites) :
         /\ test_suites[k].name = SuiteNames[k]
         /\ r_outcomes[k].kind = "raise" =>
              /\ Len(test_suites[k].results) = 1
              /\ test_suites[k].results[1].status = "FAILED"
              /\ test_suites[k].failed_count = 1
              /\ test_suites[k].passed_count = 0
         /\ r_outcomes[k].kind = "return" =>
              test_suites[k].results = r_outcomes[k].results
    /\ r_pc \in {"report", "exited"} => Len(test_suites) = Len(SuiteNames)

\* C18 witness: the first suite function raised, a later one returned its
\* results, and all six suites were returned.
C18_Witness ==
    /\ r_pc = "report"
    /\ r_outcomes[1].kind = "raise"
    /\ r_outcomes[3].kind = "return"
    /\ Len(test_suites) = 6
    /\ test_suites[3].passed_count = 5

\* C19: main returns 1 when running or reporting raises, and otherwise 0
\* exactly when the sum of failed_count over all suites is 0 and 1 when it
\* is not; for every suite passed_count + failed_count + skipped_count
\* equals the number of its results.
C19_ExitCode ==
    /\ r_pc = "exited" =>
         /\ exit_code \in {0, 1}
         /\ r_raised => exit_code = 1
         /\ ~r_raised =>
              (exit_code = 0 <=> \A k \in 1..Len(test_suites) :
                                    test_suites[k].failed_count = 0)
    /\ r_pc # "exited" => exit_code = -1
    /\ \A k \in 1..Len(test_suites) :
         test_suites[k].passed_count + test_suites[k].failed_count
           + test_suites[k].skipped_count = Len(test_suites[k].results)

\* C19 witness: main returned 1 without raising, the only failure being a
\* FAILED result of the first suite.
C19_Witness ==
    /\ r_pc = "exited"
    /\ ~r_raised
    /\ exit_code = 1
    /\ test_suites[1].failed_count = 1
    /\ test_suites[1].passed_count = 2
    /\ \A k \in 2..6 : test_suites[k].failed_count = 0

\* C20: test_eodhd_api and test_finnhub_api, called without an API key
\* (None or the empty string), issue no HTTP request and return a result
\* whose tests list holds exactly one entry, with success False, error
\* "No API key provided" and data_points 0; called with a key they return
\* exactly one entry per test symbol, in the order of the symbols.
C20_NoKeyNoRequest ==
    LET keyless == da_api_key.kind = "None" \/ da_api_key.s = <<>>
    IN  /\ keyless => da_requests = <<>>
        /\ (da_pc = "returned" /\ keyless) =>
             /\ Len(da_tests) = 1
             /\ da_tests[1].success = FALSE
             /\ da_tests[1].error = "No API key provided"
             /\ da_tests[1].data_points = 0
        /\ (da_pc = "returned" /\ ~keyless) =>
             /\ Len(da_tests) = Len(da_symbols)
             /\ \A k \in 1..Len(da_tests) : da_tests[k].symbol = da_symbols[k]
             /\ da_requests = da_symbols

\* C20 witness: test_finnhub_api, called with the empty string as key on
\* three symbols, returned the single entry.
C20_Witness ==
    /\ da_pc = "returned"
    /\ da_fn = "finnhub"
    /\ da_api_key = [kind |-> "str", s |-> <<>>]
    /\ Len(da_symbols) = 3
    /\ da_tests = <<NoKeyEntry>>

\* A price array of the body is shorter than its timestamp array.
ShortPriceArray(body) ==
    \E a \in {body.open, body.high, body.low, body.close} : Len(a) < body.timestamp

\* C21: _test_yahoo_symbol never raises.  For a non-200 status, a timeout, a
\* connection error, a body without a chart result, a body without a quote
\* and a body whose price arrays are shorter than its timestamp array it
\* returns a record with success False, an error string and data_points 0;
\* it returns success True only for an HTTP 200 body with a non-empty chart
\* result and a non-empty quote list.
C21_YahooSymbolNeverRaises ==
    y_pc = "returned" =>
        LET body == y_resp.body
            has_result == body.json = "dict" /\ body.chart = "dict" /\ body.result = "one"
            failing ==
                \/ y_resp.net \in {"TimeoutError", "ClientError"}
                \/ y_resp.status # 200
                \/ ~has_result
                \/ body.quote # "one"
                \/ ShortPriceArray(body)
        IN  /\ ~y_out.raised
            /\ y_out.ret.symbol = y_symbol
            /\ failing =>
                 /\ y_out.ret.success = FALSE
                 /\ y_out.ret.error # "None"
                 /\ y_out.ret.data_points = 0
            /\ y_out.ret.success =>
                 /\ y_resp.net = "ok"
                 /\ y_resp.status = 200
                 /\ has_result
                 /\ body.quote = "one"

\* C21 witness: an HTTP 200 body with two timestamps and a "close" array of
\* one price was answered with the parsing-error record.
C21_Witness ==
    /\ y_pc = "returned"
    /\ y_resp.status = 200
    /\ y_resp.body.quote = "one"
    /\ y_resp.body.timestamp = 2
    /\ Len(y_resp.body.open) = 2
    /\ Len(y_resp.body.close) = 1
    /\ y_out = YReturn(YahooFailure(y_symbol, "Response parsing error"))

\* C22: the Rate Limiting Test entry of test_error_scenarios records
\* total_requests 10 and successful_requests equal to the number of
\* responses with success True, for every combination of outcomes of the ten
\* requests, and an entry marked success True carries no error.
C22_RateLimitingEntry ==
    es_pc = "returned" =>
        LET entry == es_tests[Len(es_tests)]
            ok == {k \in 1..Len(rate_limit_responses) :
                      ~rate_limit_responses[k].raised /\ rate_limit_responses[k].ret.success}
        IN  /\ entry.scenario = "Rate Limiting Test"
            /\ entry.total_requests = 10
            /\ Len(rate_limit_responses) = 10
            /\ entry.successful_requests = Cardinality(ok)
            /\ entry.success => entry.error = "None"

\* The number of symbols with a result of the API, and with a successful one.
RecordedFor(api_name) ==
    Cardinality({symbol \in ValidationSymbols : all_results[symbol][api_name] # "absent"})

SucceededFor(api_name) ==
    Cardinality({symbol \in ValidationSymbols : all_results[symbol][api_name] = "success"})

\* success / total * 100 >= threshold, and 0 >= threshold without a result.
RateReaches(api_name, threshold) ==
    /\ RecordedFor(api_name) > 0
    /\ SucceededFor(api_name) * 100 >= threshold * RecordedFor(api_name)

\* C23: validate_api_responses gives EXCELLENT exactly when the chart rate
\* and the quoteSummary rate are both >= 80, otherwise GOOD exactly when at
\* least one of them is >= 60, otherwise POOR; primary_apis_functional is
\* True exactly when the status is EXCELLENT; a success rate is
\* success_count / total_count * 100, and 0 when the API has no result.
C23_OverallStatus ==
    v_pc = "returned" =>
        LET excellent == RateReaches("yahoo_chart", 80) /\ RateReaches("yahoo_quotesummary", 80)
            good == ~excellent /\ (RateReaches("yahoo_chart", 60)
                                   \/ RateReaches("yahoo_quotesummary", 60))
        IN  /\ validation_report.status =
                 (IF excellent THEN "EXCELLENT" ELSE IF good THEN "GOOD" ELSE "POOR")
            /\ validation_report.primary_apis_functional
                 <=> validation_report.status = "EXCELLENT"
            /\ \A api_name \in ApisTested :
                 LET entry == validation_report.results_by_api[api_name]
                     rate == entry.success_rate_percent
                 IN  /\ entry.total_count = RecordedFor(api_name)
                     /\ entry.success_count = SucceededFor(api_name)
                     /\ RecordedFor(api_name) = 0 => rate.num = 0
                     /\ RecordedFor(api_name) > 0 =>
                          rate.num * RecordedFor(api_name)
                              = SucceededFor(api_name) * 100 * rate.den

\* C23 witness: the chart API succeeded for 4 of the 5 symbols it has a
\* result for (80 percent), quoteSummary for all 6: EXCELLENT.
C23_Witness ==
    /\ v_pc = "returned"
    /\ RecordedFor("yahoo_chart") = 5
    /\ SucceededFor("yahoo_chart") = 4
    /\ SucceededFor("yahoo_quotesummary") = 6
    /\ validation_report.status = "EXCELLENT"
    /\ validation_report.primary_apis_functional

\* C24: in the rapid-request loop of test_swift_nasdaq_integration, "No rate
\* limiting detected in 10 rapid requests" is printed only when all 10
\* requests were made and none of them returned HTTP 429, and never in a run
\* that printed "Rate limiting detected".
C24_NoRateLimitingMessage ==
    "No rate limiting detected in 10 rapid requests" \in rl_printed =>
        /\ rapid_requests = 10
        /\ rl_rate_limited = 0
        /\ "Rate limiting detected" \notin rl_printed

\* C25: after any sequence of fetch_with_failover calls on a freshly
\* constructed simulator, total_requests = successful_requests +
\* failed_requests for every provider; an attempt inside a fetch adds one to
\* the attempted provider's total_requests and one to exactly one of its
\* successful_requests and failed_requests, and the counters of the
\* providers not attempted stay as they are.
C25_CountersAddUp ==
    /\ [](\A name \in ProviderNames :
             provider_stats[name].total_requests
                 = provider_stats[name].successful_requests
                   + provider_stats[name].failed_requests)
    /\ [][IF Len(fo_calls') = Len(fo_calls) + 1
          THEN LET attempted == fo_calls'[Len(fo_calls')].provider
                   before == provider_stats[attempted]
                   after == provider_stats'[attempted]
               IN  /\ after.total_requests = before.total_requests + 1
                   /\ \/ /\ after.successful_requests = before.successful_requests + 1
                         /\ after.failed_requests = before.failed_requests
                      \/ /\ after.successful_requests = before.successful_requests
                         /\ after.failed_requests = before.failed_requests + 1
                   /\ \A name \in ProviderNames \ {attempted} :
                        provider_stats'[name] = provider_stats[name]
          ELSE provider_stats' = provider_stats]_vars

\* C25 witness: after three fetches Yahoo Finance was attempted three times,
\* with successes and a failure, and EODHD took over once.
C25_Witness ==
    /\ fo_pc = "returned"
    /\ n_fetches = 3
    /\ provider_stats["Yahoo Finance"].total_requests = 3
    /\ provider_stats["Yahoo Finance"].successful_requests = 2
    /\ provider_stats["Yahoo Finance"].failed_requests = 1
    /\ provider_stats["EODHD"].successful_requests = 1
    /\ provider_stats["Finnhub"].total_requests = 0

\* C26: a result of fetch_with_failover has outcome SUCCESS or FAILURE, never
\* TIMEOUT or RATE_LIMITED; it is SUCCESS exactly when the data is not empty
\* and exactly when the provider name is a configured provider; it is
\* FAILURE with empty data and provider "None" exactly when all three
\* providers returned a non-SUCCESS outcome in that fetch.
C26_FetchResult ==
    fo_pc = "returned" =>
        LET all_failed ==
                /\ {fo_calls[k].provider : k \in 1..Len(fo_calls)} = ProviderNames
                /\ \A k \in 1..Len(fo_calls) : fo_calls[k].outcome # "SUCCESS"
        IN  /\ fo_result.outcome \in {"SUCCESS", "FAILURE"}
            /\ fo_result.outcome = "SUCCESS" <=> fo_result.data # <<>>
            /\ fo_result.outcome = "SUCCESS" <=> fo_result.provider \in ProviderNames
            /\ (/\ fo_result.outcome = "FAILURE"
                /\ fo_result.data = <<>>
                /\ fo_result.provider = "None") <=> all_failed

\* C26 witness: a fetch in which Yahoo Finance was rate limited, EODHD timed
\* out and Finnhub failed returned FAILURE, no data, provider "None".
C26_Witness ==
    /\ fo_pc = "returned"
    /\ Len(fo_calls) = 3
    /\ fo_calls[1].outcome = "RATE_LIMITED"
    /\ fo_calls[2].outcome = "TIMEOUT"
    /\ fo_calls[3].outcome = "FAILURE"
    /\ fo_result = [outcome |-> "FAILURE", data |-> <<>>, provider |-> "None"]

\* C27: in the load test of test_performance_concurrent, after each iteration
\* cache_hits + cache_misses is the number of iterations done and api_calls
\* equals cache_misses; at the end cache_hits + cache_misses is the number of
\* requests of the test and api_call_reduction equals cache_hit_rate; a symbol
\* is in the memory cache only if an earlier fetch for it returned SUCCESS,
\* and a request is a hit only if an earlier iteration stored its symbol.
C27_LoadTestCounters ==
    /\ [](/\ ra_pc \in {"load", "returned"} =>
               /\ load_results.cache_hits + load_results.cache_misses = lt_i
               /\ load_results.api_calls = load_results.cache_misses
          /\ ra_pc = "returned" =>
               /\ lt_i = load_test.total_requests
               /\ load_test.cache_hits + load_test.cache_misses = load_test.total_requests
               /\ load_test.api_call_reduction = load_test.cache_hit_rate
          /\ ra_pc \in {"concurrent", "concurrent_fetch", "load", "load_fetch", "returned"} =>
               DOMAIN memory_cache \subseteq lt_succeeded)
    /\ [][load_results'.cache_hits > load_results.cache_hits => lt_symbol' \in lt_stored]_vars

C27_Witness ==
    /\ ra_caller = "test"
    /\ ra_pc = "returned"
    /\ load_test.cache_hits >= 1
    /\ load_test.cache_misses >= 1
    /\ load_test.api_calls = load_test.cache_misses


\* C28: in run_all_tests, scenario 3 of test_failover_mechanisms leaves
\* total_requests of Yahoo Finance equal to its rate_limit_threshold, so the
\* first fetch of test_caching_mechanisms finds Yahoo Finance rate limited
\* and the data_source recorded for "Cache Miss (First Fetch)" is never
\* "Yahoo Finance".
C28_FirstCachingFetchRateLimited ==
    /\ (ra_pc = "failover" /\ tf_pc = "returned") =>
           provider_stats["Yahoo Finance"].total_requests
               = providers["Yahoo Finance"].rate_limit_threshold
    /\ (ra_pc = "caching" /\ fo_calls = <<>>) =>
           provider_stats["Yahoo Finance"].total_requests
               = providers["Yahoo Finance"].rate_limit_threshold
    /\ (ra_pc = "caching" /\ fo_calls # <<>>) =>
           /\ fo_calls[1].provider = "Yahoo Finance"
           /\ fo_calls[1].outcome = "RATE_LIMITED"
    /\ caching_tests # <<>> =>
           /\ caching_tests[1].name = "Cache Miss (First Fetch)"
           /\ caching_tests[1].data_source # "Yahoo Finance"

C28_Witness ==
    /\ ra_caller = "main"
    /\ caching_tests # <<>>
    /\ caching_tests[1].success
    /\ caching_tests[1].data_source = "EODHD"
    /\ provider_stats["Yahoo Finance"].rate_limit_hits >= 1


\* C29: the total computed by generate_comprehensive_report from the results
\* of run_all_tests is 22 in every run: 9 basic, 3 failover, 4 caching,
\* 3 Core Data and 3 error handling tests; the Performance Tests result has
\* none of the keys providers, scenarios and tests and adds nothing to the
\* total or to the passed count, and the passed count never exceeds the total.
C29_TotalTestsExecuted ==
    (ra_caller = "main" /\ ra_pc = "reported") =>
        /\ report.total_tests = 22
        /\ Len(test_results) = 6
        /\ test_results[1].key = "providers" /\ SumOfLengths(test_results[1].flags) = 9
        /\ test_results[2].key = "scenarios" /\ Len(test_results[2].flags[1]) = 3
        /\ test_results[3].key = "tests" /\ Len(test_results[3].flags[1]) = 4
        /\ test_results[4].key = "tests" /\ Len(test_results[4].flags[1]) = 3
        /\ test_results[5].key = "scenarios" /\ Len(test_results[5].flags[1]) = 3
        /\ test_results[6].test_name = "Performance Tests"
        /\ test_results[6].key \notin {"providers", "scenarios", "tests"}
        /\ report.successful_tests
               = SumOfFlags(test_results[1].flags) + SumOfFlags(test_results[2].flags)
                 + SumOfFlags(test_results[3].flags) + SumOfFlags(test_results[4].flags)
                 + SumOfFlags(test_results[5].flags)
        /\ report.successful_tests <= report.total_tests

C29_Witness ==
    /\ ra_caller = "main"
    /\ ra_pc = "reported"
    /\ report.total_tests = 22
    /\ report.successful_tests >= 1
    /\ report.successful_tests < report.total_tests

\* C30: called by main after run_all_tests, generate_comprehensive_report
\* never divides by zero: some provider has total_requests > 0 and the test
\* total is not zero; called on a simulator where no provider has a request,
\* it raises instead of returning a report.
C30_ReportDivisors ==
    /\ (ra_caller = "main" /\ ra_pc = "returned") =>
           \E name \in ProviderNames : provider_stats[name].total_requests > 0
    /\ ra_caller = "main" => ra_pc # "raised"
    /\ (ra_caller = "main" /\ ra_pc = "reported") =>
           /\ report.active_providers > 0
           /\ report.total_tests > 0
    /\ (ra_caller = "report_only" /\ ra_pc # "idle") =>
           /\ \A name \in ProviderNames : provider_stats[name].total_requests = 0
           /\ ra_pc = "raised"

C30_Witness ==
    /\ ra_caller = "main"
    /\ ra_pc = "reported"
    /\ report.active_providers = 2
    /\ provider_stats["Finnhub"].total_requests = 0
    /\ provider_stats["Yahoo Finance"].total_requests > 0
====
